---- MODULE Spec2Model ----
(***************************************************************************)
(* Message similarity clustering: the ingestion pipeline                   *)
(* (MessagesService.ingestMessage), the cluster lifecycle                  *)
(* (ClustersService.actionCluster / removeClusterMessage / listClusters /  *)
(* getCluster) and the PostgreSQL tables they work on.                     *)
(*                                                                         *)
(* Texts are sequences of one-character strings, embeddings are integer    *)
(* vectors, timestamps and generated ids are naturals.  Each mutating      *)
(* operation is one transaction and is modelled as one atomic step.        *)
(***************************************************************************)
EXTENDS Integers, Sequences, FiniteSets, TLC

\* ------------------------------------------------------------------ bounds
\* Largest number of message rows ever inserted in one behaviour.
MaxMessages == 2
\* Largest number of message rows ever inserted in one behaviour of
\* interleaved transactions.
MaxConcurrentMessages == 3
\* Largest number of message rows ever inserted in one behaviour of a
\* thread of one question.
MaxThreadMessages == 3
\* Largest number of message rows ever inserted in one behaviour of
\* interleaved lifecycle transactions.
MaxLifecycleMessages == 2
\* Largest number of message rows ever inserted in one behaviour of the
\* texts at the thresholds.
MaxThresholdMessages == 3
\* Largest number of message rows ever inserted in one behaviour of replies
\* to two questions.
MaxSuggestMessages == 5
\* Largest number of message rows ever inserted in one behaviour of the
\* lists of one question.
MaxListMessages == 3

\* ------------------------------------------------------------- null values
\* SQL NULL / JS undefined for ids and timestamps (generated ids and the
\* clock start at 1).
Null == 0
\* SQL NULL for a vector column.
NullVec == <<>>

\* --------------------------------------------------------------- constants
MIN_RESPONSE_LENGTH == 5
\* Thresholds as exact fractions num/den.
TRIGRAM_THRESHOLD == [num |-> 85, den |-> 100]
SIMILARITY_THRESHOLD == [num |-> 9, den |-> 10]

\* ------------------------------------------------------------------- texts
Upper == << "A","B","C","D","E","F","G","H","I","J","K","L","M",
            "N","O","P","Q","R","S","T","U","V","W","X","Y","Z" >>
Lower == << "a","b","c","d","e","f","g","h","i","j","k","l","m",
            "n","o","p","q","r","s","t","u","v","w","x","y","z" >>
Digits == {"0","1","2","3","4","5","6","7","8","9"}
Whitespace == {" "}
\* Characters of the Unicode Emoji property that occur in the texts below
\* (the property covers the digits, "#" and "*").
EmojiChars == Digits \cup {"#", "*"}

Range(f) == {f[i] : i \in DOMAIN f}

\* String.prototype.toLowerCase on one character.
LowerChar(ch) ==
    IF \E i \in DOMAIN Upper : Upper[i] = ch
    THEN Lower[CHOOSE i \in DOMAIN Upper : Upper[i] = ch]
    ELSE ch

ToLower(s) == [i \in DOMAIN s |-> LowerChar(s[i])]

IsAlnum(ch) == ch \in Range(Upper) \cup Range(Lower) \cup Digits

\* String.prototype.trim.
RECURSIVE TrimLeft(_)
TrimLeft(s) ==
    IF s # <<>> /\ Head(s) \in Whitespace THEN TrimLeft(Tail(s)) ELSE s

RECURSIVE TrimRight(_)
TrimRight(s) ==
    IF s # <<>> /\ s[Len(s)] \in Whitespace
    THEN TrimRight(SubSeq(s, 1, Len(s) - 1))
    ELSE s

Trim(s) == TrimRight(TrimLeft(s))

\* The alternatives of the three word patterns of NO_RESPONSE_PATTERNS.
AckWords ==
    { <<"t","h","a","n","k","s">>, <<"t","h","a","n","k"," ","y","o","u">>,
      <<"t","h","x">>, <<"t","y">>, <<"t","y","s","m">>,
      <<"o","k">>, <<"o","k","a","y">>, <<"k">>, <<"k","k">>,
      <<"g","o","t"," ","i","t">>,
      <<"s","o","u","n","d","s"," ","g","o","o","d">>,
      <<"p","e","r","f","e","c","t">>, <<"g","r","e","a","t">>,
      <<"a","w","e","s","o","m","e">>, <<"c","o","o","l">>,
      <<"n","i","c","e">>,
      <<"y","e","s">>, <<"n","o">>, <<"y","e","p">>, <<"n","o","p","e">>,
      <<"y","e","a">>, <<"y","e","a","h">>, <<"n","a","h">> }

\* s without one trailing "." (the \.? of the patterns).
StripDot(s) ==
    IF s # <<>> /\ s[Len(s)] = "." THEN SubSeq(s, 1, Len(s) - 1) ELSE s

\* s without its trailing "!"s (the !* of the patterns).
RECURSIVE StripBangs(_)
StripBangs(s) ==
    IF s # <<>> /\ s[Len(s)] = "!"
    THEN StripBangs(SubSeq(s, 1, Len(s) - 1))
    ELSE s

\* /^(w1|w2|...)!*\.?$/i
MatchesAckPattern(s) == ToLower(StripBangs(StripDot(s))) \in AckWords

\* /^[\p{Emoji}\s]+$/u
MatchesEmojiPattern(s) ==
    /\ s # <<>>
    /\ \A i \in DOMAIN s : s[i] \in EmojiChars \cup Whitespace

\* needsResponse without the trim.
needsResponse_Untrimmed(text) ==
    IF Len(text) < MIN_RESPONSE_LENGTH THEN FALSE
    ELSE IF MatchesAckPattern(text) \/ MatchesEmojiPattern(text) THEN FALSE
    ELSE TRUE

needsResponse(text) ==
    LET trimmed == Trim(text) IN
    IF Len(trimmed) < MIN_RESPONSE_LENGTH THEN FALSE
    ELSE IF MatchesAckPattern(trimmed) \/ MatchesEmojiPattern(trimmed) THEN FALSE
    ELSE TRUE

\* ------------------------------------------------ pg_trgm similarity(a, b)
\* pg_trgm lower-cases, takes the maximal alphanumeric runs as words, pads
\* each word with two blanks in front and one behind and collects the
\* three-character windows; similarity is |shared| / |union|.
WordStarts(s) ==
    {i \in DOMAIN s : IsAlnum(s[i]) /\ (i = 1 \/ ~IsAlnum(s[i - 1]))}

WordEnd(s, i) ==
    CHOOSE j \in i..Len(s) :
        /\ \A k \in i..j : IsAlnum(s[k])
        /\ (j = Len(s) \/ ~IsAlnum(s[j + 1]))

PaddedWord(s, i) == <<" ", " ">> \o ToLower(SubSeq(s, i, WordEnd(s, i))) \o <<" ">>

Trigrams(s) ==
    UNION { LET p == PaddedWord(s, i)
            IN  {SubSeq(p, k, k + 2) : k \in 1..(Len(p) - 2)} : i \in WordStarts(s) }

\* similarity as the exact fraction num/den (0/1 when both sets are empty).
TrgmSimilarity(a, b) ==
    LET ta == Trigrams(a)
        tb == Trigrams(b)
    IN  IF ta \cup tb = {} THEN [num |-> 0, den |-> 1]
        ELSE [num |-> Cardinality(ta \cap tb), den |-> Cardinality(ta \cup tb)]

\* x > threshold for fractions with positive denominators.
FracGt(x, t) == x.num * t.den > t.num * x.den
FracGe(x, t) == x.num * t.den >= t.num * x.den


\* ------------------------------------------------------------------ inputs
Creators == {"creatorA", "creatorB"}
Channels == {"channel-1", "channel-2"}
ExternalIds == {"ext-msg-1"}
ResponseTexts == {"Thanks!"}

TextPrice == <<"p","r","i","c","e","?">>
TextPriceLoud == <<"P","R","I","C","E","?","?">>
TextCost == <<"c","o","s","t","?">>
\* Two texts at the thresholds: 17 of their 20 trigrams are shared
\* (similarity 0.85) and the cosine of their embeddings is 0.9.
TextRights ==
    <<"u","n","c","o","p","y","r","i","g","h","t","a","b","l","e","s","?">>
TextRightsTo == SubSeq(TextRights, 1, 16) \o <<" ","t","o","?">>
ThresholdTexts == {TextRights, TextRightsTo}
\* Texts that pass the response-need filter.
AnswerableTexts == {TextPrice, TextPriceLoud, TextCost} \cup ThresholdTexts
\* Acknowledgements: too short, too short once trimmed, a word pattern with
\* "!" and ".", digits only.
SkipTexts ==
    { <<"o","k">>,
      <<" "," ","y","e","a","h"," "," ">>,
      <<"T","h","a","n","k","s","!">>,
      <<"g","o","t"," ","i","t","!","!",".">>,
      <<"1","2","3","4","5">> }
Texts == AnswerableTexts \cup SkipTexts

\* A client-supplied createdAt that lies before every server timestamp.
OldDate == 1
\* First value of the server clock.
FirstNow == 2

\* The arguments of the ingestMessage mutation (createdAt = Null: omitted).
\* The plain question comes from both channels, its variants from one
\* channel each; the second creator, a paid message, a back-dated message
\* and the acknowledgements come with the plain question's creator, text or
\* channel, so that they meet the other messages.
AllIngestInputs ==
    [creatorId : Creators, messageId : ExternalIds, text : Texts,
     channelId : Channels, createdAt : {Null, OldDate}, isPaidDm : BOOLEAN]

IngestInputs ==
    { i : i \in
        { j \in AllIngestInputs :
            /\ j.text \notin ThresholdTexts
            /\ j.text = TextPriceLoud => j.channelId = "channel-1"
            /\ j.text = TextCost => j.channelId = "channel-2"
            /\ j.text # TextPrice =>
                  j.creatorId = "creatorA" /\ ~j.isPaidDm /\ j.createdAt = Null
            /\ j.creatorId = "creatorB" =>
                  ~j.isPaidDm /\ j.createdAt = Null /\ j.channelId = "channel-1"
            /\ j.isPaidDm => j.createdAt = Null /\ j.channelId = "channel-1"
            /\ j.createdAt = OldDate => j.channelId = "channel-2"
            /\ j.text \in SkipTexts => j.channelId = "channel-1" } }

\* needsResponse and similarity() over the texts above, computed once.
NeedsResponseOf == [t \in Texts |-> needsResponse(t)]
SimilarityOf ==
    [a \in AnswerableTexts |-> [b \in AnswerableTexts |-> TrgmSimilarity(a, b)]]

\* -------------------------------------------------------------- embeddings
\* EmbeddingsService.embed: the provider's vector for a text, in units of
\* 10^-7 (a deterministic function of the text).
embed(text) ==
    CASE text = TextPrice     -> <<100, 0, 0, 0>>
      [] text = TextPriceLoud -> <<4, 100, 0, 0>>
      [] text = TextCost      -> <<90, 44, 0, 0>>
      [] text = TextRights    -> <<0, 0, 100, 0>>
      [] text = TextRightsTo -> <<30, 30, 90, 10>>
      [] OTHER                -> <<-100, -100, 0, 0>>

\* Number(value).toFixed(6): a value in units of 10^-7 rounded to units of
\* 10^-6, halves away from zero.
toFixed6(value) ==
    IF value >= 0 THEN (value + 5) \div 10 ELSE -((5 - value) \div 10)

toVectorLiteral(values) == [i \in DOMAIN values |-> toFixed6(values[i])]

RECURSIVE DotUpTo(_, _, _)
DotUpTo(a, b, n) == IF n = 0 THEN 0 ELSE a[n] * b[n] + DotUpTo(a, b, n - 1)
Dot(a, b) == DotUpTo(a, b, Len(a))

\* 1 - (a <=> b): the cosine dot / sqrt(nn), kept as the pair (dot, nn).
CosineSimilarity(a, b) == [dot |-> Dot(a, b), nn |-> Dot(a, a) * Dot(b, b)]

\* cosine >= num/den for a threshold in [0, 1].
CosineGe(c, t) ==
    c.dot >= 0 /\ c.dot * c.dot * t.den * t.den >= t.num * t.num * c.nn

\* cosine > num/den for a threshold in [0, 1].
CosineGt(c, t) ==
    c.dot > 0 /\ c.dot * c.dot * t.den * t.den > t.num * t.num * c.nn

\* Cosine c1 >= cosine c2 (the order of ORDER BY embedding <=> $1).
CosineOrder(c1, c2) ==
    IF c1.dot >= 0 /\ c2.dot < 0 THEN TRUE
    ELSE IF c1.dot < 0 /\ c2.dot >= 0 THEN FALSE
    ELSE IF c1.dot >= 0 THEN c1.dot * c1.dot * c2.nn >= c2.dot * c2.dot * c1.nn
    ELSE c1.dot * c1.dot * c2.nn <= c2.dot * c2.dot * c1.nn


\* ------------------------------------------------------------------- state
VARIABLES
    messages,            \* table messages
    clusters,            \* table clusters
    cluster_messages,    \* table cluster_messages
    response_templates,  \* table response_templates
    nextMessageId,       \* next fresh messages.id
    nextClusterId,       \* next fresh clusters.id
    nextTemplateId,      \* next fresh response_templates.id
    now,                 \* the database clock, now()
    result,              \* what the last call returned or threw
    txns                 \* the open transaction of each pool connection

db == <<messages, clusters, cluster_messages, response_templates,
        nextMessageId, nextClusterId, nextTemplateId, now>>
vars == <<messages, clusters, cluster_messages, response_templates,
          nextMessageId, nextClusterId, nextTemplateId, now, result, txns>>

\* ClusterStatus
Open == "open"
Actioned == "actioned"
\* c.status of a row the LEFT JOIN found no cluster for.
NullStatus == "null"

NoSimilarity == [stage |-> "none", num |-> 0, den |-> 1]
NoCluster ==
    [id |-> Null, creatorId |-> "", status |-> NullStatus, responseText |-> "",
     updatedAt |-> Null, channelCount |-> 0, messages |-> {}]

\* The shape of every call record; a call fills in what it returns.
NoResult ==
    [op |-> "none", outcome |-> "none", reason |-> "", messageId |-> Null,
     clusterId |-> Null, matchedMessageId |-> Null, similarity |-> NoSimilarity,
     embedCalled |-> FALSE, cluster |-> NoCluster]

\* rowCount = 0
NoRow == [id |-> Null, cluster_id |-> Null]

\* Pool connections that run transactions side by side.
Sessions == {"s1", "s2"}

\* A connection with no open transaction.  pc: the statement that runs
\* next; the other fields are the locals of ingestMessage and the rows the
\* transaction has inserted and not yet committed.
IdleTxn ==
    [pc |-> "idle", input |-> {}, createdAt |-> Null, tm |-> NoRow,
     skippedEmbedding |-> FALSE, embeddingLiteral |-> NullVec,
     messageId |-> Null, vm |-> NoRow, clusterId |-> Null,
     matchedMessageId |-> Null, similarity |-> NoSimilarity,
     newClusters |-> {}, newMemberships |-> {},
     op |-> "none", cluster |-> NoCluster,
     deleted |-> {}, has_messages |-> FALSE,
     creator_id |-> "", embedding |-> NullVec, responseText |-> "",
     templateWrite |-> "none", templateId |-> Null]

Init ==
    /\ txns = [s \in Sessions |-> IdleTxn]
    /\ messages = {}
    /\ clusters = {}
    /\ cluster_messages = {}
    /\ response_templates = {}
    /\ nextMessageId = 1
    /\ nextClusterId = 1
    /\ nextTemplateId = 1
    /\ now = FirstNow
    /\ result = NoResult

\* ------------------------------------------------------------ table access
MessageById(id) == CHOOSE m \in messages : m.id = id
ClusterById(id) == CHOOSE c \in clusters : c.id = id
MessageIds == {m.id : m \in messages}
ClusterIds == {c.id : c \in clusters}

\* message ids of the memberships of a cluster
Members(cms, clusterId) == {cm.message_id : cm \in {r \in cms : r.cluster_id = clusterId}}

\* cluster_messages declared with its PRIMARY KEY only, without
\* UNIQUE (message_id).
UniqueViolation_PrimaryKeyOnly(cms, clusterId, messageId) ==
    \E cm \in cms : cm.cluster_id = clusterId /\ cm.message_id = messageId

\* PRIMARY KEY (cluster_id, message_id) and UNIQUE (message_id) of
\* cluster_messages: would inserting the membership (clusterId, messageId)
\* into cms fail?
UniqueViolation(cms, clusterId, messageId) ==
    \E cm \in cms :
        \/ cm.cluster_id = clusterId /\ cm.message_id = messageId
        \/ cm.message_id = messageId

\* INSERT INTO clusters (creator_id) VALUES ($1) RETURNING id
NewClusterRow(id, creatorId, at) ==
    [id |-> id, creator_id |-> creatorId, status |-> Open,
     created_at |-> at, updated_at |-> at]

\* FROM messages m LEFT JOIN cluster_messages cm ON cm.message_id = m.id
\*                 LEFT JOIN clusters c ON c.id = cm.cluster_id
\* (excluded_at is never set by the current removeClusterMessage, so
\* cm.excluded_at IS NULL holds of every row)
MessageClusterJoin(msgs, cms, cls) ==
    UNION { LET links == {cm \in cms : cm.message_id = m.id}
            IN  IF links = {}
                THEN {[m |-> m, cluster_id |-> Null, status |-> NullStatus]}
                ELSE {[m |-> m, cluster_id |-> cm.cluster_id,
                       status |-> IF \E c \in cls : c.id = cm.cluster_id
                                  THEN (CHOOSE c \in cls : c.id = cm.cluster_id).status
                                  ELSE NullStatus] : cm \in links}
          : m \in msgs }

\* The EXISTS subquery without m2.id <> m.id.
ClusterHasEmbeddings_CountsCandidate(clusterId, messageId) ==
    \E cm2 \in cluster_messages : \E m2 \in messages :
        /\ m2.id = cm2.message_id
        /\ clusterId # Null
        /\ cm2.cluster_id = clusterId
        /\ m2.embedding # NullVec

\* ----------------------------------------------------------- ingestMessage
\* EXISTS (... cm2 JOIN m2 WHERE cm2.cluster_id = cm.cluster_id
\*          AND m2.embedding IS NOT NULL AND m2.id <> m.id)
ClusterHasEmbeddings(clusterId, messageId) ==
    \E cm2 \in cluster_messages : \E m2 \in messages :
        /\ m2.id = cm2.message_id
        /\ clusterId # Null
        /\ cm2.cluster_id = clusterId
        /\ m2.embedding # NullVec
        /\ m2.id # messageId

\* The candidate filter without m.is_paid_dm = false.
IsCandidate_PaidToo(j, creatorId) ==
    /\ j.m.creator_id = creatorId
    /\ j.m.replied_at = Null
    /\ (j.status = NullStatus \/ j.status = Open)

IsCandidate_UnclusteredOnly(j, creatorId) ==
    /\ j.m.creator_id = creatorId
    /\ j.m.replied_at = Null
    /\ j.m.is_paid_dm = FALSE
    /\ j.status = NullStatus

\* The candidate filter without m.creator_id = $2.
IsCandidate_AnyCreator(j, creatorId) ==
    /\ j.m.replied_at = Null
    /\ j.m.is_paid_dm = FALSE
    /\ (j.status = NullStatus \/ j.status = Open)

\* The candidate filter both match queries share: same creator, unreplied,
\* non-paid, and not in a cluster that is not open.
IsCandidate(j, creatorId) ==
    /\ j.m.creator_id = creatorId
    /\ j.m.replied_at = Null
    /\ j.m.is_paid_dm = FALSE
    /\ (j.status = NullStatus \/ j.status = Open)

\* A candidate whose score equals the lexical threshold is a match too.
TrigramRows_AtThreshold(input) ==
    { [id |-> j.m.id, cluster_id |-> j.cluster_id,
       trgm_similarity |-> SimilarityOf[j.m.text][input.text],
       cluster_has_embeddings |-> ClusterHasEmbeddings(j.cluster_id, j.m.id)]
      : j \in { k \in MessageClusterJoin(messages, cluster_messages, clusters) :
                  /\ IsCandidate(k, input.creatorId)
                  /\ FracGe(SimilarityOf[k.m.text][input.text], TRIGRAM_THRESHOLD) } }

\* Rows of the Step 1 query before ORDER BY / LIMIT.
TrigramRows(input) ==
    { [id |-> j.m.id, cluster_id |-> j.cluster_id,
       trgm_similarity |-> SimilarityOf[j.m.text][input.text],
       cluster_has_embeddings |-> ClusterHasEmbeddings(j.cluster_id, j.m.id)]
      : j \in { k \in MessageClusterJoin(messages, cluster_messages, clusters) :
                  /\ IsCandidate(k, input.creatorId)
                  /\ FracGt(SimilarityOf[k.m.text][input.text], TRIGRAM_THRESHOLD) } }

\* ORDER BY similarity DESC LIMIT 1: a row of greatest similarity; which
\* one among equals is the store's choice.
TrigramMatch(input) ==
    LET rows == TrigramRows(input)
    IN  { r \in rows : \A q \in rows : FracGe(r.trgm_similarity, q.trgm_similarity) }

\* The lexical stage finds nothing.
TrigramChoices_Disabled(input) == {NoRow}

\* What Step 1 can yield: no query for a paid message.
TrigramChoices(input) ==
    IF input.isPaidDm = TRUE THEN {NoRow}
    ELSE LET best == TrigramMatch(input)
         IN  IF best = {} THEN {NoRow} ELSE best

\* Rows of the Step 4 query before ORDER BY / LIMIT, over the messages
\* table that already holds the new message.
VectorRows(msgs, embeddingLiteral, creatorId, messageId) ==
    { [id |-> j.m.id, cluster_id |-> j.cluster_id,
       similarity |-> CosineSimilarity(j.m.embedding, embeddingLiteral)]
      : j \in { k \in MessageClusterJoin(msgs, cluster_messages, clusters) :
                  /\ IsCandidate(k, creatorId)
                  /\ k.m.id # messageId
                  /\ k.m.embedding # NullVec } }

\* ORDER BY m.embedding <=> $1 LIMIT 1
VectorMatch(msgs, embeddingLiteral, creatorId, messageId) ==
    LET rows == VectorRows(msgs, embeddingLiteral, creatorId, messageId)
    IN  { r \in rows : \A q \in rows : CosineOrder(r.similarity, q.similarity) }

\* What Step 4 can yield; the query runs only when Step 1 found no cluster,
\* the message is not paid and it has an embedding.
VectorChoices(msgs, runs, embeddingLiteral, creatorId, messageId) ==
    IF ~runs THEN {NoRow}
    ELSE LET best == VectorMatch(msgs, embeddingLiteral, creatorId, messageId)
         IN  IF best = {} THEN {NoRow} ELSE best

\* The first row of the Step 4 query is taken whatever its similarity.
AssignCluster_IgnoresThreshold(trigramClusterId, vm, vectorMatched, creatorId, messageId) ==
    LET pairs == vm.id # Null /\ vm.cluster_id = Null
        joinedClusterId ==
            IF vm.id # Null /\ vm.cluster_id # Null THEN vm.cluster_id
            ELSE trigramClusterId
        creates == pairs \/ joinedClusterId = Null
        clusterId == IF creates THEN nextClusterId ELSE joinedClusterId
        cm1 == IF pairs
               THEN cluster_messages \cup
                      {[cluster_id |-> clusterId, message_id |-> vm.id]}
               ELSE cluster_messages
    IN  [failed |->
            \/ (pairs /\ UniqueViolation(cluster_messages, clusterId, vm.id))
            \/ UniqueViolation(cm1, clusterId, messageId),
         clusterId |-> clusterId,
         creates |-> creates,
         clusters |->
            IF creates
            THEN clusters \cup {NewClusterRow(clusterId, creatorId, now)}
            ELSE clusters,
         cluster_messages |->
            cm1 \cup {[cluster_id |-> clusterId, message_id |-> messageId]}]

\* Cluster resolution of the new message (the cluster branch of Step 4,
\* Steps 5 and 6) against the tables of the transaction.  trigramClusterId:
\* the cluster Step 1 found, vm: the first row of the Step 4 query.
\* failed: an INSERT INTO cluster_messages violates UNIQUE (message_id).
AssignCluster(trigramClusterId, vm, vectorMatched, creatorId, messageId) ==
    LET \* matched message not in a cluster: create one and add both
        pairs == vectorMatched /\ vm.cluster_id = Null
        joinedClusterId ==
            IF vectorMatched /\ vm.cluster_id # Null THEN vm.cluster_id
            ELSE trigramClusterId
        \* Step 5: create a new cluster if still no cluster assigned
        creates == pairs \/ joinedClusterId = Null
        clusterId == IF creates THEN nextClusterId ELSE joinedClusterId
        cm1 == IF pairs
               THEN cluster_messages \cup
                      {[cluster_id |-> clusterId, message_id |-> vm.id]}
               ELSE cluster_messages
    IN  [failed |->
            \/ (pairs /\ UniqueViolation(cluster_messages, clusterId, vm.id))
            \/ UniqueViolation(cm1, clusterId, messageId),
         clusterId |-> clusterId,
         creates |-> creates,
         clusters |->
            IF creates
            THEN clusters \cup {NewClusterRow(clusterId, creatorId, now)}
            ELSE clusters,
         \* Step 6: add message to cluster
         cluster_messages |->
            cm1 \cup {[cluster_id |-> clusterId, message_id |-> messageId]}]

\* The provider's error is caught and the ingest goes on.
EmbedThrows_Swallowed(skippedEmbedding, embedFails) == FALSE

\* Step 2 throws: embed() is called and the provider fails.
EmbedThrows(skippedEmbedding, embedFails) == ~skippedEmbedding /\ embedFails

IngestSkipped ==
    [NoResult EXCEPT !.op = "ingest", !.outcome = "skipped",
                     !.reason = "no_response_needed"]

IngestFailed(reason, embedCalled) ==
    [NoResult EXCEPT !.op = "ingest", !.outcome = "error", !.reason = reason,
                     !.embedCalled = embedCalled]

\* One call of MessagesService.ingestMessage.  embedFails: the embedding
\* provider throws if it is called.
ingestMessage(input, embedFails) ==
    IF ~NeedsResponseOf[input.text]
    THEN /\ result' = IngestSkipped
         /\ UNCHANGED db
    ELSE
      \E tm \in TrigramChoices(input) :
        LET isPaidDm == input.isPaidDm = TRUE
            createdAt == IF input.createdAt # Null THEN input.createdAt ELSE now
            trigramClusterId == tm.cluster_id
            skippedEmbedding ==
                tm.id # Null /\ tm.cluster_id # Null /\ tm.cluster_has_embeddings
        IN
        IF EmbedThrows(skippedEmbedding, embedFails)
        THEN \* embed() throws: ROLLBACK
             /\ result' = IngestFailed("embedding", TRUE)
             /\ UNCHANGED db
        ELSE
          LET embeddingLiteral ==
                  IF skippedEmbedding THEN NullVec
                  ELSE toVectorLiteral(embed(input.text))
              messageId == nextMessageId
              row == [id |-> messageId,
                      external_message_id |-> input.messageId,
                      creator_id |-> input.creatorId,
                      channel_id |-> input.channelId,
                      text |-> input.text,
                      embedding |-> embeddingLiteral,
                      created_at |-> createdAt,
                      replied_at |-> Null,
                      is_paid_dm |-> isPaidDm]
              messages1 == messages \cup {row}
              runsVector ==
                  trigramClusterId = Null /\ ~isPaidDm /\ embeddingLiteral # NullVec
          IN
          \E vm \in VectorChoices(messages1, runsVector, embeddingLiteral,
                                  input.creatorId, messageId) :
            LET vectorMatched ==
                    vm.id # Null /\ CosineGe(vm.similarity, SIMILARITY_THRESHOLD)
                matchedMessageId == IF vectorMatched THEN vm.id ELSE tm.id
                similarity ==
                    IF vectorMatched
                    THEN [stage |-> "vector", num |-> vm.similarity.dot,
                          den |-> vm.similarity.nn]
                    ELSE IF tm.id # Null
                    THEN [stage |-> "trigram", num |-> tm.trgm_similarity.num,
                          den |-> tm.trgm_similarity.den]
                    ELSE NoSimilarity
                a == AssignCluster(trigramClusterId, vm, vectorMatched,
                                   input.creatorId, messageId)
            IN
            IF a.failed
            THEN \* an INSERT throws: ROLLBACK
                 /\ result' = IngestFailed("unique_violation", ~skippedEmbedding)
                 /\ UNCHANGED db
            ELSE /\ messages' = messages1
                 /\ clusters' = a.clusters
                 /\ cluster_messages' = a.cluster_messages
                 /\ nextMessageId' = nextMessageId + 1
                 /\ nextClusterId' =
                      IF a.creates THEN nextClusterId + 1 ELSE nextClusterId
                 /\ now' = now + 1
                 /\ UNCHANGED <<response_templates, nextTemplateId>>
                 /\ result' =
                      [NoResult EXCEPT !.op = "ingest", !.outcome = "ok",
                                       !.messageId = messageId,
                                       !.clusterId = a.clusterId,
                                       !.matchedMessageId = matchedMessageId,
                                       !.similarity = similarity,
                                       !.embedCalled = ~skippedEmbedding]

\* ------------------------------------------------------------------- reads
\* COUNT(m.channel_id): one per member, channels not told apart.
ChannelCount_NotDistinct(clusterId) ==
    Cardinality(Members(cluster_messages, clusterId) \cap MessageIds)

\* COUNT(DISTINCT m.channel_id) over the memberships of a cluster
ChannelCount(clusterId) ==
    Cardinality({MessageById(id).channel_id :
                    id \in Members(cluster_messages, clusterId) \cap MessageIds})

\* ClustersService.getClusterMessages, as the set of the rows' ids
getClusterMessages(clusterId) == Members(cluster_messages, clusterId) \cap MessageIds

\* mapClusterRow over one row of the list / detail query
mapClusterRow(c) ==
    [id |-> c.id, creatorId |-> c.creator_id, status |-> c.status,
     responseText |-> "", updatedAt |-> c.updated_at,
     channelCount |-> ChannelCount(c.id), messages |-> {}]

\* ClustersService.listClusters, as the set of the returned clusters;
\* status = NullStatus and minChannelCount = Null: filter not given.
listClusters(creatorId, status, minChannelCount) ==
    { mapClusterRow(c) :
        c \in { k \in clusters :
                  /\ k.creator_id = creatorId
                  /\ (status # NullStatus => k.status = status)
                  /\ (minChannelCount # Null /\ minChannelCount > 0
                        => ChannelCount(k.id) >= minChannelCount) } }

\* ORDER BY c.updated_at DESC: the arrays of the rows, latest update first;
\* which one among rows of equal updated_at comes first is the store's
\* choice.
RECURSIVE OrderByUpdatedAt(_)
OrderByUpdatedAt(rows) ==
    IF rows = {} THEN {<<>>}
    ELSE UNION
           { { <<r>> \o rest : rest \in OrderByUpdatedAt(rows \ {r}) }
             : r \in { a \in rows : \A b \in rows : a.updatedAt >= b.updatedAt } }

\* ClustersService.listClusters, as the arrays it can return.
listClustersOrdered(creatorId, status, minChannelCount) ==
    OrderByUpdatedAt(listClusters(creatorId, status, minChannelCount))

\* ClustersService.getCluster: NoCluster stands for "Cluster not found".
getCluster(id) ==
    IF id \notin ClusterIds THEN NoCluster
    ELSE [mapClusterRow(ClusterById(id)) EXCEPT !.messages = getClusterMessages(id)]

\* The cluster row is kept and marked actioned instead of being deleted.
DeleteClusterRow_MarkActioned(cls, id) ==
    {IF c.id = id THEN [c EXCEPT !.status = Actioned] ELSE c : c \in cls}

\* DELETE FROM clusters WHERE id = $1
DeleteClusterRow(cls, id) == {c \in cls : c.id # id}

\* The member rows are kept and marked replied instead of being deleted.
DeleteClusterMessagesRows_MarkReplied(msgs, memberIds) ==
    {IF m.id \in memberIds THEN [m EXCEPT !.replied_at = now] ELSE m : m \in msgs}

\* DELETE FROM messages WHERE id IN (SELECT message_id FROM cluster_messages
\* WHERE cluster_id = $1)
DeleteClusterMessagesRows(msgs, memberIds) == {m \in msgs : m.id \notin memberIds}

\* ON DELETE CASCADE of cluster_messages: rows whose message or cluster row
\* is gone go with it.
Cascade(cms, msgs, cls) ==
    {cm \in cms :
        /\ \E m \in msgs : m.id = cm.message_id
        /\ \E c \in cls : c.id = cm.cluster_id}

\* ----------------------------------------------------------- actionCluster
\* Members of the cluster that ORDER BY m.created_at ASC LIMIT 1 can return.
EarliestMembers(clusterId) ==
    LET ms == {m \in messages : m.id \in Members(cluster_messages, clusterId)}
    IN  IF clusterId \notin ClusterIds THEN {}
        ELSE {m \in ms : \A q \in ms : m.created_at <= q.created_at}

\* The lookup binds no embedding: $3 is NULL and question_embedding = NULL
\* holds of no row.
ExistingTemplates_UnboundEmbedding(creatorId, responseText, embedding) ==
    { t \in response_templates :
        /\ t.creator_id = creatorId
        /\ t.response_text = responseText
        /\ t.question_embedding = NullVec }

\* The lookup leaves out creator_id = $1.
ExistingTemplates_AnyCreator(creatorId, responseText, embedding) ==
    { t \in response_templates :
        /\ t.response_text = responseText
        /\ embedding # NullVec
        /\ t.question_embedding = embedding }

\* Rows of the "exact response template already exists" query.
ExistingTemplates(creatorId, responseText, embedding) ==
    { t \in response_templates :
        /\ t.creator_id = creatorId
        /\ t.response_text = responseText
        /\ embedding # NullVec
        /\ t.question_embedding = embedding }

ActionFailed(reason) ==
    [NoResult EXCEPT !.op = "action", !.outcome = "error", !.reason = reason]

\* Only a missing list is rejected, not an empty one.
NoChannelSelected_MissingOnly(channelIds) == FALSE

\* !channelIds || channelIds.length === 0 (the argument is a non-null list)
NoChannelSelected(channelIds) == channelIds = {}

\* One call of ClustersService.actionCluster.
\* The members of the selected channels are marked replied and stay members
\* of the cluster.
actionCluster_MarksRepliedKeepsMembers(id, responseText, channelIds) ==
    IF NoChannelSelected(channelIds)
    THEN /\ result' = ActionFailed("At least one channel must be selected")
         /\ UNCHANGED db
    ELSE IF EarliestMembers(id) = {}
    THEN /\ result' = ActionFailed("Cluster not found")
         /\ UNCHANGED db
    ELSE /\ messages' =
              {IF m.id \in Members(cluster_messages, id) /\ m.channel_id \in channelIds
               THEN [m EXCEPT !.replied_at = now] ELSE m : m \in messages}
         /\ now' = now + 1
         /\ UNCHANGED <<clusters, cluster_messages, response_templates,
                        nextMessageId, nextClusterId, nextTemplateId>>
         /\ result' = [NoResult EXCEPT !.op = "action", !.outcome = "ok",
                                       !.clusterId = id]

actionCluster(id, responseText, channelIds) ==
    IF NoChannelSelected(channelIds)
    THEN /\ result' = ActionFailed("At least one channel must be selected")
         /\ UNCHANGED db
    ELSE IF EarliestMembers(id) = {}
    THEN /\ result' = ActionFailed("Cluster not found")
         /\ UNCHANGED db
    ELSE
      \E first \in EarliestMembers(id) :
        LET creator_id == ClusterById(id).creator_id
            embedding == first.embedding
            existing == ExistingTemplates(creator_id, responseText, embedding)
            memberIds == Members(cluster_messages, id)
        IN
        IF existing = {} /\ embedding = NullVec
        THEN \* question_embedding is NOT NULL: the INSERT throws, ROLLBACK
             /\ result' = ActionFailed("not_null_violation")
             /\ UNCHANGED db
        ELSE
          /\ IF existing # {}
             THEN \E t \in existing :
                    /\ response_templates' =
                         (response_templates \ {t}) \cup
                           {[t EXCEPT !.usage_count = t.usage_count + 1,
                                      !.last_used_at = now]}
                    /\ UNCHANGED nextTemplateId
             ELSE /\ response_templates' =
                       response_templates \cup
                         {[id |-> nextTemplateId, creator_id |-> creator_id,
                           question_embedding |-> embedding,
                           response_text |-> responseText,
                           usage_count |-> 1, last_used_at |-> now]}
                  /\ nextTemplateId' = nextTemplateId + 1
          \* DELETE FROM messages WHERE id IN (members); ON DELETE CASCADE
          \* removes their cluster_messages rows
          /\ messages' = DeleteClusterMessagesRows(messages, memberIds)
          \* DELETE FROM clusters WHERE id = $1; ON DELETE CASCADE
          /\ clusters' = DeleteClusterRow(clusters, id)
          /\ cluster_messages' = Cascade(cluster_messages, messages', clusters')
          /\ now' = now + 1
          /\ UNCHANGED <<nextMessageId, nextClusterId>>
          /\ result' =
               [NoResult EXCEPT !.op = "action", !.outcome = "ok",
                                !.clusterId = id,
                                !.cluster =
                                   [NoCluster EXCEPT !.id = id,
                                                     !.status = Actioned,
                                                     !.responseText = responseText]]

\* ---------------------------------------------------- removeClusterMessage
RemoveFailed(reason) ==
    [NoResult EXCEPT !.op = "remove", !.outcome = "error", !.reason = reason]

\* The emptiness check without its WHERE cluster_id = $1.
HasMessages_AnyCluster(cms, clusterId) == cms # {}

\* The emptiness check is left out: the cluster is taken to have members.
HasMessages_Unchecked(cms, clusterId) == TRUE

\* SELECT EXISTS (SELECT 1 FROM cluster_messages WHERE cluster_id = $1)
HasMessages(cms, clusterId) == \E cm \in cms : cm.cluster_id = clusterId

\* The membership delete without its cluster_id = $1.
DeletedMemberships_AnyCluster(cms, clusterId, messageId) ==
    {cm \in cms : cm.message_id = messageId}

\* The membership delete without its AND message_id = $2.
DeletedMemberships_WholeCluster(cms, clusterId, messageId) ==
    {cm \in cms : cm.cluster_id = clusterId}

\* Rows of DELETE FROM cluster_messages WHERE cluster_id = $1
\* AND message_id = $2
DeletedMemberships(cms, clusterId, messageId) ==
    {cm \in cms : cm.cluster_id = clusterId /\ cm.message_id = messageId}

\* One call of ClustersService.removeClusterMessage.
removeClusterMessage(clusterId, messageId) ==
    LET deleted == DeletedMemberships(cluster_messages, clusterId, messageId)
        remaining == cluster_messages \ deleted
        has_messages == HasMessages(remaining, clusterId)
    IN
    IF deleted = {}
    THEN /\ result' = RemoveFailed("Message not found in cluster")
         /\ UNCHANGED db
    ELSE
      /\ clusters' =
           IF ~has_messages
           THEN DeleteClusterRow(clusters, clusterId)
           ELSE {IF c.id = clusterId THEN [c EXCEPT !.updated_at = now] ELSE c
                   : c \in clusters}
      /\ cluster_messages' = Cascade(remaining, messages, clusters')
      /\ now' = now + 1
      /\ UNCHANGED <<messages, response_templates, nextMessageId, nextClusterId,
                     nextTemplateId>>
      /\ result' =
           IF ~has_messages
           THEN [NoResult EXCEPT !.op = "remove", !.outcome = "ok",
                                 !.clusterId = clusterId, !.messageId = messageId]
           ELSE [NoResult EXCEPT !.op = "remove", !.outcome = "ok",
                                 !.clusterId = clusterId, !.messageId = messageId,
                                 !.cluster = getCluster(clusterId)']

\* --------------------------------------------------- getSuggestedResponses
\* The literal 0.8 of the suggestions query.
SUGGESTION_THRESHOLD == [num |-> 8, den |-> 10]

\* LIMIT 3
SuggestionLimit == 3

\* The templates of every creator pass the filter.
SuggestionCandidates_AnyCreator(embedding, creatorId) ==
    { r \in { [id |-> t.id, response_text |-> t.response_text,
               similarity |-> CosineSimilarity(t.question_embedding, embedding),
               usage_count |-> t.usage_count, last_used_at |-> t.last_used_at]
             : t \in response_templates } :
        CosineGt(r.similarity, SUGGESTION_THRESHOLD) }

\* SELECT response_text, (1 - (question_embedding <=> $1)) as similarity
\* FROM response_templates
\* WHERE creator_id = $2 AND (1 - (question_embedding <=> $1)) > 0.8,
\* each row with the columns the ORDER BY reads.
SuggestionCandidates(embedding, creatorId) ==
    { r \in { [id |-> t.id, response_text |-> t.response_text,
               similarity |-> CosineSimilarity(t.question_embedding, embedding),
               usage_count |-> t.usage_count, last_used_at |-> t.last_used_at]
             : t \in { u \in response_templates : u.creator_id = creatorId } } :
        CosineGt(r.similarity, SUGGESTION_THRESHOLD) }

\* ORDER BY similarity DESC, usage_count DESC, last_used_at DESC:
\* row a sorts strictly before row b.
SortsBefore(a, b) ==
    IF ~CosineOrder(b.similarity, a.similarity) THEN TRUE
    ELSE IF ~CosineOrder(a.similarity, b.similarity) THEN FALSE
    ELSE \/ a.usage_count > b.usage_count
         \/ /\ a.usage_count = b.usage_count
            /\ a.last_used_at > b.last_used_at

\* The lists of the first n rows of the order over cands: a row that none
\* sorts before, then the first n - 1 of the rest; which one among rows
\* equal in every key is the store's choice.
RECURSIVE FirstRows(_, _)
FirstRows(cands, n) ==
    IF n = 0 \/ cands = {} THEN {<<>>}
    ELSE UNION
           { { <<t>> \o rest : rest \in FirstRows(cands \ {t}, n - 1) }
             : t \in { a \in cands : \A b \in cands : ~SortsBefore(b, a) } }

\* The query returns the first row only.
SuggestionRows_FirstOnly(embedding, creatorId) ==
    FirstRows(SuggestionCandidates(embedding, creatorId), 1)

\* The row lists the suggestions query can return.
SuggestionRows(embedding, creatorId) ==
    FirstRows(SuggestionCandidates(embedding, creatorId), SuggestionLimit)

\* The integer square root of n, known to lie in lo..hi.
RECURSIVE ISqrtIn(_, _, _)
ISqrtIn(n, lo, hi) ==
    IF lo = hi THEN lo
    ELSE LET mid == (lo + hi + 1) \div 2
         IN  IF mid * mid <= n THEN ISqrtIn(n, mid, hi) ELSE ISqrtIn(n, lo, mid - 1)

ISqrt(n) == ISqrtIn(n, 0, IF n < 46340 THEN n ELSE 46340)

\* Number(similarity.toFixed(3)) of a non-negative cosine, in thousandths;
\* exact when the product of the two norms is an integer.
toFixed3(c) ==
    LET r == ISqrt(c.nn)
    IN  (2000 * c.dot + r) \div (2 * r)

\* ClustersService.getSuggestedResponses, as the set of the arrays it can
\* return.
getSuggestedResponses(clusterId, creatorId) ==
    IF EarliestMembers(clusterId) = {} THEN {<<>>}
    ELSE UNION
           { IF first.embedding = NullVec THEN {<<>>}
             ELSE { [i \in DOMAIN rows |->
                       [text |-> rows[i].response_text,
                        similarity |-> toFixed3(rows[i].similarity)]]
                    : rows \in SuggestionRows(first.embedding, creatorId) }
             : first \in EarliestMembers(clusterId) }

\* -------------------------------------------------------------- behaviours
\* Ids a caller may pass: every id the store can have generated.
IdArgs == 1..MaxConcurrentMessages

Ingest == \E input \in IngestInputs : \E embedFails \in BOOLEAN :
              /\ NeedsResponseOf[input.text] => nextMessageId <= MaxMessages
              /\ ingestMessage(input, embedFails)
              /\ UNCHANGED txns

Action == \E id \in IdArgs : \E responseText \in ResponseTexts :
              \E channelIds \in SUBSET Channels :
                  actionCluster(id, responseText, channelIds) /\ UNCHANGED txns

RemoveMember == \E clusterId \in IdArgs : \E messageId \in IdArgs :
                    removeClusterMessage(clusterId, messageId) /\ UNCHANGED txns

Next == Ingest \/ Action \/ RemoveMember

Spec == Init /\ [][Next]_vars


\* ------------------------------------------- interleaved ingest transactions
\* READ COMMITTED: every statement of a transaction sees the rows committed
\* before the statement started and the transaction's own rows; the rows a
\* transaction inserted become visible to the others when it commits.
\* The questions of one creator that the interleaved ingests carry.
ConcurrentInputs ==
    { i : i \in { j \in IngestInputs :
                    /\ NeedsResponseOf[j.text]
                    /\ j.creatorId = "creatorA"
                    /\ ~j.isPaidDm /\ j.createdAt = Null
                    /\ j.text = TextPrice => j.channelId = "channel-1"
                    /\ j.text # TextPriceLoud } }

\* The messages row a transaction inserted in Step 3.
OwnRow(t) ==
    { [id |-> t.messageId,
       external_message_id |-> i.messageId,
       creator_id |-> i.creatorId,
       channel_id |-> i.channelId,
       text |-> i.text,
       embedding |-> t.embeddingLiteral,
       created_at |-> t.createdAt,
       replied_at |-> Null,
       is_paid_dm |-> i.isPaidDm = TRUE] : i \in t.input }

\* A transaction holds uncommitted memberships: the rows they reference are
\* locked against deletion until it ends.
HoldsMemberships(s) == txns[s].newMemberships # {}

\* INSERT INTO cluster_messages waits while another transaction holds an
\* uncommitted row with the same message_id in the unique index.
UniqueWait(s, rows) ==
    \E o \in Sessions \ {s} : \E cm \in rows :
        UniqueViolation(txns[o].newMemberships, cm.cluster_id, cm.message_id)

\* REFERENCES clusters(id) / messages(id): a membership row whose cluster or
\* message row is neither committed nor the transaction's own is rejected.
ForeignKeyViolation_Unchecked(rows, ownClusters, ownMessages) == FALSE

ForeignKeyViolation(rows, ownClusters, ownMessages) ==
    \E cm \in rows :
        \/ cm.message_id \notin (MessageIds \cup {m.id : m \in ownMessages})
        \/ cm.cluster_id \notin (ClusterIds \cup {c.id : c \in ownClusters})

\* catch: ROLLBACK, throw
Rollback(s, reason, embedCalled) ==
    /\ txns' = [txns EXCEPT ![s] = IdleTxn]
    /\ result' = IngestFailed(reason, embedCalled)

\* ingestMessage up to Step 1: BEGIN and the trigram query.
BeginIngest(s) ==
    \E input \in ConcurrentInputs :
      /\ txns[s].pc = "idle"
      /\ nextMessageId
           + Cardinality({o \in Sessions : txns[o].pc = "embed"})
           <= MaxConcurrentMessages
      /\ \E tm \in TrigramChoices(input) :
           txns' = [txns EXCEPT ![s] =
                      [IdleTxn EXCEPT
                         !.pc = "embed", !.input = {input}, !.tm = tm,
                         !.createdAt = IF input.createdAt # Null
                                       THEN input.createdAt ELSE now,
                         !.skippedEmbedding =
                            tm.id # Null /\ tm.cluster_id # Null
                              /\ tm.cluster_has_embeddings]]
      /\ UNCHANGED <<db, result>>

\* Steps 2 and 3: the embedding call and INSERT INTO messages.
EmbedAndInsert(s) ==
    \E embedFails \in BOOLEAN : \E input \in txns[s].input :
      LET t == txns[s] IN
      /\ t.pc = "embed"
      /\ IF EmbedThrows(t.skippedEmbedding, embedFails)
         THEN /\ Rollback(s, "embedding", TRUE)
              /\ UNCHANGED db
         ELSE /\ txns' = [txns EXCEPT ![s] =
                           [t EXCEPT !.pc = "vector",
                                     !.embeddingLiteral =
                                        IF t.skippedEmbedding THEN NullVec
                                        ELSE toVectorLiteral(embed(input.text)),
                                     !.messageId = nextMessageId]]
              /\ nextMessageId' = nextMessageId + 1
              /\ UNCHANGED <<messages, clusters, cluster_messages,
                             response_templates, nextClusterId, nextTemplateId,
                             now, result>>

\* Step 4: the vector query, over the committed rows and the own message.
VectorQuery(s) ==
    \E input \in txns[s].input :
      LET t == txns[s]
          runsVector ==
              t.tm.cluster_id = Null /\ input.isPaidDm # TRUE
                /\ t.embeddingLiteral # NullVec
      IN
      /\ t.pc = "vector"
      /\ \E vm \in VectorChoices(messages \cup OwnRow(t), runsVector,
                                 t.embeddingLiteral, input.creatorId, t.messageId) :
           txns' = [txns EXCEPT ![s] = [t EXCEPT !.pc = "assign", !.vm = vm]]
      /\ UNCHANGED <<db, result>>

\* The cluster branch of Step 4 and Steps 5 and 6: the inserts into clusters
\* and cluster_messages.
InsertMemberships(s) ==
    \E input \in txns[s].input :
      LET t == txns[s]
          vectorMatched ==
              t.vm.id # Null /\ CosineGe(t.vm.similarity, SIMILARITY_THRESHOLD)
          a == AssignCluster(t.tm.cluster_id, t.vm, vectorMatched,
                             input.creatorId, t.messageId)
          newMemberships == a.cluster_messages \ cluster_messages
          newClusters == a.clusters \ clusters
      IN
      /\ t.pc = "assign"
      /\ ~UniqueWait(s, newMemberships)
      /\ IF a.failed
         THEN /\ Rollback(s, "unique_violation", ~t.skippedEmbedding)
              /\ UNCHANGED db
         ELSE IF ForeignKeyViolation(newMemberships, newClusters, OwnRow(t))
         THEN /\ Rollback(s, "foreign_key_violation", ~t.skippedEmbedding)
              /\ UNCHANGED db
         ELSE /\ txns' = [txns EXCEPT ![s] =
                           [t EXCEPT
                              !.pc = "commit",
                              !.clusterId = a.clusterId,
                              !.matchedMessageId =
                                 IF vectorMatched THEN t.vm.id ELSE t.tm.id,
                              !.similarity =
                                 IF vectorMatched
                                 THEN [stage |-> "vector",
                                       num |-> t.vm.similarity.dot,
                                       den |-> t.vm.similarity.nn]
                                 ELSE IF t.tm.id # Null
                                 THEN [stage |-> "trigram",
                                       num |-> t.tm.trgm_similarity.num,
                                       den |-> t.tm.trgm_similarity.den]
                                 ELSE NoSimilarity,
                              !.newClusters = newClusters,
                              !.newMemberships = newMemberships]]
              /\ nextClusterId' =
                   IF a.creates THEN nextClusterId + 1 ELSE nextClusterId
              /\ UNCHANGED <<messages, clusters, cluster_messages,
                             response_templates, nextMessageId, nextTemplateId,
                             now, result>>

\* COMMIT and the returned IngestResult.
CommitIngest(s) ==
    LET t == txns[s] IN
    /\ t.pc = "commit"
    /\ messages' = messages \cup OwnRow(t)
    /\ clusters' = clusters \cup t.newClusters
    /\ cluster_messages' = cluster_messages \cup t.newMemberships
    /\ now' = now + 1
    /\ txns' = [txns EXCEPT ![s] = IdleTxn]
    /\ result' =
         [NoResult EXCEPT !.op = "ingest", !.outcome = "ok",
                          !.messageId = t.messageId,
                          !.clusterId = t.clusterId,
                          !.matchedMessageId = t.matchedMessageId,
                          !.similarity = t.similarity,
                          !.embedCalled = ~t.skippedEmbedding]
    /\ UNCHANGED <<response_templates, nextMessageId, nextClusterId,
                   nextTemplateId>>

\* A whole actionCluster or removeClusterMessage transaction between two
\* statements of the open ingests; its deletes wait for the transactions
\* that hold uncommitted memberships.
NoMembershipsHeld == \A s \in Sessions : ~HoldsMemberships(s)

ActionBetween == NoMembershipsHeld /\ Action

RemoveMemberBetween == NoMembershipsHeld /\ RemoveMember

IngestStep ==
    \E s \in Sessions :
        \/ BeginIngest(s)
        \/ EmbedAndInsert(s)
        \/ VectorQuery(s)
        \/ InsertMemberships(s)
        \/ CommitIngest(s)

NextConcurrent == IngestStep \/ ActionBetween \/ RemoveMemberBetween

SpecConcurrent == Init /\ [][NextConcurrent]_vars


\* --------------------------------------- reads outside the transactions
\* getCluster runs its two queries (the cluster row with its aggregates,
\* then getClusterMessages) on the pool without a transaction, and
\* removeClusterMessage calls getCluster after its COMMIT: other
\* transactions can commit between these statements.
\* The transaction of removeClusterMessage, BEGIN to COMMIT / ROLLBACK.
RemoveMemberCommit(s) ==
    \E clusterId \in IdArgs : \E messageId \in IdArgs :
      LET deleted == DeletedMemberships(cluster_messages, clusterId, messageId)
          remaining == cluster_messages \ deleted
          has_messages == HasMessages(remaining, clusterId)
      IN
      /\ txns[s].pc = "idle"
      /\ IF deleted = {}
         THEN /\ result' = RemoveFailed("Message not found in cluster")
              /\ UNCHANGED <<db, txns>>
         ELSE
           /\ clusters' =
                IF ~has_messages
                THEN DeleteClusterRow(clusters, clusterId)
                ELSE {IF c.id = clusterId THEN [c EXCEPT !.updated_at = now] ELSE c
                        : c \in clusters}
           /\ cluster_messages' = Cascade(remaining, messages, clusters')
           /\ now' = now + 1
           /\ UNCHANGED <<messages, response_templates, nextMessageId,
                          nextClusterId, nextTemplateId>>
           /\ IF ~has_messages
              THEN \* clusterDeleted: return null
                   /\ result' = [NoResult EXCEPT !.op = "remove", !.outcome = "ok",
                                                 !.clusterId = clusterId,
                                                 !.messageId = messageId]
                   /\ UNCHANGED txns
              ELSE \* return this.getCluster(clusterId)
                   /\ txns' = [txns EXCEPT ![s] =
                                 [IdleTxn EXCEPT !.pc = "cluster", !.op = "remove",
                                                 !.clusterId = clusterId,
                                                 !.messageId = messageId]]
                   /\ UNCHANGED result

\* A detail read starts: ClustersResolver.cluster calls getCluster(id).
BeginDetail(s) ==
    \E id \in IdArgs :
      /\ txns[s].pc = "idle"
      /\ txns' = [txns EXCEPT ![s] =
                    [IdleTxn EXCEPT !.pc = "cluster", !.op = "detail",
                                    !.clusterId = id]]
      /\ UNCHANGED <<db, result>>

\* getCluster's first query and mapClusterRow; no row: "Cluster not found".
ClusterQuery(s) ==
    LET t == txns[s] IN
    /\ t.pc = "cluster"
    /\ IF t.clusterId \notin ClusterIds
       THEN /\ result' = [NoResult EXCEPT !.op = t.op, !.outcome = "error",
                                          !.reason = "Cluster not found",
                                          !.clusterId = t.clusterId,
                                          !.messageId = t.messageId]
            /\ txns' = [txns EXCEPT ![s] = IdleTxn]
       ELSE /\ txns' = [txns EXCEPT ![s] =
                          [t EXCEPT !.pc = "members",
                                    !.cluster = mapClusterRow(ClusterById(t.clusterId))]]
            /\ UNCHANGED result
    /\ UNCHANGED db

\* getCluster's second query, getClusterMessages, and the return.
MembersQuery(s) ==
    LET t == txns[s] IN
    /\ t.pc = "members"
    /\ result' = [NoResult EXCEPT
                    !.op = t.op, !.outcome = "ok",
                    !.clusterId = t.clusterId, !.messageId = t.messageId,
                    !.cluster = [t.cluster EXCEPT
                                   !.messages = getClusterMessages(t.clusterId)]]
    /\ txns' = [txns EXCEPT ![s] = IdleTxn]
    /\ UNCHANGED db

ReadStep ==
    \E s \in Sessions :
        \/ RemoveMemberCommit(s)
        \/ BeginDetail(s)
        \/ ClusterQuery(s)
        \/ MembersQuery(s)

NextReads == Ingest \/ Action \/ ReadStep

SpecReads == Init /\ [][NextReads]_vars


\* ------------------------------------------------ a thread of one question
\* One creator's non-paid messages of one text, from either channel, with
\* or without a createdAt of their own: enough calls for a cluster to have
\* a member that was stored without an embedding.
ThreadInputs ==
    { i : i \in { j \in IngestInputs :
                    /\ j.text = TextPrice
                    /\ j.creatorId = "creatorA"
                    /\ ~j.isPaidDm } }

IngestThread == \E input \in ThreadInputs : \E embedFails \in BOOLEAN :
                    /\ nextMessageId <= MaxThreadMessages
                    /\ ingestMessage(input, embedFails)
                    /\ UNCHANGED txns

NextThread == IngestThread \/ Action \/ RemoveMember

SpecThread == Init /\ [][NextThread]_vars

\* ------------------------------------- interleaved lifecycle transactions
\* removeClusterMessage and actionCluster each run their statements in a
\* transaction of their own (READ COMMITTED): a statement sees the rows
\* committed before it and the transaction's own writes; a row deleted or
\* updated by an open transaction is locked until that transaction ends.
LifecycleInputs ==
    { i : i \in { j \in IngestInputs :
                    /\ j.text = TextPrice
                    /\ j.creatorId = "creatorA"
                    /\ j.createdAt = Null } }

IngestLifecycle == \E input \in LifecycleInputs : \E embedFails \in BOOLEAN :
                       /\ nextMessageId <= MaxLifecycleMessages
                       /\ ingestMessage(input, embedFails)
                       /\ UNCHANGED txns

\* Another open transaction has deleted (locked) a membership of the cluster.
MembershipLocked(s, clusterId) ==
    \E o \in Sessions \ {s} : \E cm \in txns[o].deleted : cm.cluster_id = clusterId

\* removeClusterMessage: BEGIN and DELETE FROM cluster_messages WHERE
\* cluster_id = $1 AND message_id = $2; no row: throw, ROLLBACK.
RemoveDelete(s) ==
    \E clusterId \in IdArgs : \E messageId \in IdArgs :
      LET deleted == DeletedMemberships(cluster_messages, clusterId, messageId) IN
      /\ txns[s].pc = "idle"
      /\ \A o \in Sessions \ {s} : txns[o].deleted \cap deleted = {}
      /\ IF deleted = {}
         THEN /\ result' = RemoveFailed("Message not found in cluster")
              /\ UNCHANGED txns
         ELSE /\ txns' = [txns EXCEPT ![s] =
                            [IdleTxn EXCEPT !.pc = "check", !.op = "remove",
                                            !.clusterId = clusterId,
                                            !.messageId = messageId,
                                            !.deleted = deleted]]
              /\ UNCHANGED result
      /\ UNCHANGED db

\* SELECT EXISTS (SELECT 1 FROM cluster_messages WHERE cluster_id = $1):
\* the committed memberships without the transaction's own delete.
RemoveCheck(s) ==
    LET t == txns[s] IN
    /\ t.pc = "check"
    /\ txns' = [txns EXCEPT ![s] =
                  [t EXCEPT !.pc = "write",
                            !.has_messages =
                               HasMessages(cluster_messages \ t.deleted, t.clusterId)]]
    /\ UNCHANGED <<db, result>>

\* DELETE FROM clusters or UPDATE clusters SET updated_at, and COMMIT; the
\* cascade of the DELETE waits for memberships other transactions locked.
\* With the cluster kept, the call goes on to getCluster.
RemoveWrite(s) ==
    LET t == txns[s] IN
    /\ t.pc = "write"
    /\ ~t.has_messages => ~MembershipLocked(s, t.clusterId)
    /\ clusters' =
         IF ~t.has_messages
         THEN DeleteClusterRow(clusters, t.clusterId)
         ELSE {IF c.id = t.clusterId THEN [c EXCEPT !.updated_at = now] ELSE c
                 : c \in clusters}
    /\ cluster_messages' = Cascade(cluster_messages \ t.deleted, messages, clusters')
    /\ now' = now + 1
    /\ UNCHANGED <<messages, response_templates, nextMessageId, nextClusterId,
                   nextTemplateId>>
    /\ IF ~t.has_messages
       THEN /\ result' = [NoResult EXCEPT !.op = "remove", !.outcome = "ok",
                                          !.clusterId = t.clusterId,
                                          !.messageId = t.messageId]
            /\ txns' = [txns EXCEPT ![s] = IdleTxn]
       ELSE /\ txns' = [txns EXCEPT ![s] =
                          [IdleTxn EXCEPT !.pc = "cluster", !.op = "remove",
                                          !.clusterId = t.clusterId,
                                          !.messageId = t.messageId]]
            /\ UNCHANGED result

\* actionCluster: the channelIds check, BEGIN and query 1 (creator and
\* embedding of the earliest member); no row: throw, ROLLBACK.
ActionBegin(s) ==
    \E id \in IdArgs : \E responseText \in ResponseTexts :
      \E channelIds \in SUBSET Channels :
        /\ txns[s].pc = "idle"
        /\ IF NoChannelSelected(channelIds)
           THEN /\ result' = ActionFailed("At least one channel must be selected")
                /\ UNCHANGED txns
           ELSE IF EarliestMembers(id) = {}
           THEN /\ result' = ActionFailed("Cluster not found")
                /\ UNCHANGED txns
           ELSE \E first \in EarliestMembers(id) :
                  /\ txns' = [txns EXCEPT ![s] =
                                [IdleTxn EXCEPT
                                   !.pc = "template", !.op = "action",
                                   !.clusterId = id,
                                   !.creator_id = ClusterById(id).creator_id,
                                   !.embedding = first.embedding,
                                   !.responseText = responseText]]
                  /\ UNCHANGED result
        /\ UNCHANGED db

\* Query 2 and the UPDATE or INSERT of the template: the lookup sees the
\* committed templates only; the UPDATE waits for a row another open
\* transaction updated; the INSERT of a NULL embedding throws, ROLLBACK.
ActionTemplate(s) ==
    LET t == txns[s]
        existing == ExistingTemplates(t.creator_id, t.responseText, t.embedding)
    IN
    /\ t.pc = "template"
    /\ IF existing = {} /\ t.embedding = NullVec
       THEN /\ result' = ActionFailed("not_null_violation")
            /\ txns' = [txns EXCEPT ![s] = IdleTxn]
            /\ UNCHANGED db
       ELSE IF existing # {}
       THEN \E e \in existing :
              /\ \A o \in Sessions \ {s} : txns[o].templateId # e.id
              /\ txns' = [txns EXCEPT ![s] =
                            [t EXCEPT !.pc = "delete", !.templateWrite = "update",
                                      !.templateId = e.id]]
              /\ UNCHANGED <<db, result>>
       ELSE /\ txns' = [txns EXCEPT ![s] =
                          [t EXCEPT !.pc = "delete", !.templateWrite = "insert",
                                    !.templateId = nextTemplateId]]
            /\ nextTemplateId' = nextTemplateId + 1
            /\ UNCHANGED <<messages, clusters, cluster_messages, response_templates,
                           nextMessageId, nextClusterId, now, result>>

\* DELETE FROM messages of the cluster's members, DELETE FROM clusters and
\* COMMIT; the cascade waits for memberships other transactions locked.
ActionCommit(s) ==
    LET t == txns[s]
        memberIds == Members(cluster_messages, t.clusterId)
    IN
    /\ t.pc = "delete"
    /\ ~MembershipLocked(s, t.clusterId)
    /\ response_templates' =
         IF t.templateWrite = "update"
         THEN {IF e.id = t.templateId
               THEN [e EXCEPT !.usage_count = e.usage_count + 1,
                              !.last_used_at = now]
               ELSE e : e \in response_templates}
         ELSE response_templates \cup
                {[id |-> t.templateId, creator_id |-> t.creator_id,
                  question_embedding |-> t.embedding,
                  response_text |-> t.responseText,
                  usage_count |-> 1, last_used_at |-> now]}
    /\ messages' = DeleteClusterMessagesRows(messages, memberIds)
    /\ clusters' = DeleteClusterRow(clusters, t.clusterId)
    /\ cluster_messages' = Cascade(cluster_messages, messages', clusters')
    /\ now' = now + 1
    /\ UNCHANGED <<nextMessageId, nextClusterId, nextTemplateId>>
    /\ result' =
         [NoResult EXCEPT !.op = "action", !.outcome = "ok",
                          !.clusterId = t.clusterId,
                          !.cluster =
                             [NoCluster EXCEPT !.id = t.clusterId,
                                               !.status = Actioned,
                                               !.responseText = t.responseText]]
    /\ txns' = [txns EXCEPT ![s] = IdleTxn]

LifecycleStep ==
    \E s \in Sessions :
        \/ RemoveDelete(s)
        \/ RemoveCheck(s)
        \/ RemoveWrite(s)
        \/ ClusterQuery(s)
        \/ MembersQuery(s)
        \/ ActionBegin(s)
        \/ ActionTemplate(s)
        \/ ActionCommit(s)

NextLifecycle == IngestLifecycle \/ LifecycleStep

SpecLifecycle == Init /\ [][NextLifecycle]_vars

\* ------------------------------------------------- texts at the thresholds
\* One creator's messages of the two texts whose lexical score is the
\* lexical threshold and whose cosine is the vector threshold, paid or not.
ThresholdInputs ==
    { i : i \in { j \in AllIngestInputs :
                    /\ j.text \in ThresholdTexts
                    /\ j.creatorId = "creatorA"
                    /\ j.channelId = "channel-1"
                    /\ j.createdAt = Null } }

IngestThreshold == \E input \in ThresholdInputs : \E embedFails \in BOOLEAN :
                       /\ nextMessageId <= MaxThresholdMessages
                       /\ ingestMessage(input, embedFails)
                       /\ UNCHANGED txns

NextThreshold == IngestThreshold \/ Action \/ RemoveMember

SpecThreshold == Init /\ [][NextThreshold]_vars

\* ------------------------------------------------- replies to two questions
\* Non-paid messages of the two texts of cosine 0.9 to one creator and of
\* one of them to the other, to whom a message can carry an old date.
SuggestInputs ==
    { i : i \in { j \in AllIngestInputs :
                    /\ j.text \in ThresholdTexts
                    /\ j.creatorId = "creatorB" => j.text = TextRights
                    /\ j.creatorId = "creatorA" => j.createdAt = Null
                    /\ j.channelId = "channel-1"
                    /\ j.isPaidDm = FALSE } }

SuggestResponseTexts == {"Thanks!", "Sure!"}
SuggestIdArgs == 1..MaxSuggestMessages

\* The embedding provider answers every call.
IngestSuggest == \E input \in SuggestInputs :
                     /\ nextMessageId <= MaxSuggestMessages
                     /\ ingestMessage(input, FALSE)
                     /\ UNCHANGED txns

\* Every reply goes to the one channel the messages come from.
ActionSuggest == \E id \in SuggestIdArgs : \E responseText \in SuggestResponseTexts :
                     actionCluster(id, responseText, {"channel-1"}) /\ UNCHANGED txns

\* No member is removed: clusters go by replies only.
NextSuggest == IngestSuggest \/ ActionSuggest

SpecSuggest == Init /\ [][NextSuggest]_vars

\* ------------------------------------------------- lists of one question
\* Messages of one text: to one creator from either channel, paid or not,
\* and to the other creator.
ListInputs == { i : i \in { j \in IngestInputs : j.text = TextPrice } }

IngestList == \E input \in ListInputs : \E embedFails \in BOOLEAN :
                  /\ nextMessageId <= MaxListMessages
                  /\ ingestMessage(input, embedFails)
                  /\ UNCHANGED txns

NextList == IngestList \/ Action \/ RemoveMember

SpecList == Init /\ [][NextList]_vars

\* ------------------------------------------------------------ claim helpers
\* The last call was an ingest that committed.
Ingested == result.op = "ingest" /\ result.outcome = "ok"
\* This step is a committed ingest / action / removeMember.
IngestCommitted ==
    result'.op = "ingest" /\ result'.outcome = "ok" /\ nextMessageId' # nextMessageId
ActionCommitted ==
    result'.op = "action" /\ result'.outcome = "ok" /\ now' # now
RemoveCommitted ==
    result'.op = "remove" /\ result'.outcome = "ok" /\ now' # now

\* The cluster was created by the transaction that committed last.
CreatedByLastCommit(id) ==
    id \in ClusterIds /\ ClusterById(id).created_at = now - 1

ListFilters == {NullStatus, Open, Actioned}
MinChannelCounts == {Null, 1, 2}

\* The cluster id is in no list of any creator under any filter, and detail
\* on it fails with not-found.
Absent(id) ==
    /\ \A creatorId \in Creators : \A status \in ListFilters :
         \A minChannelCount \in MinChannelCounts :
           \A c \in listClusters(creatorId, status, minChannelCount) : c.id # id
    /\ getCluster(id) = NoCluster

\* A cluster id that was generated and has no row is absent after every
\* step that changes the store.
AbsentForGood ==
    db' # db =>
      \A id \in IdArgs : (id < nextClusterId /\ id \notin ClusterIds) => Absent(id)'

\* ------------------------------------------------------------------ claims
\* C1: in every reachable state every cluster has at most one member per
\* channel (its distinct-channel count equals its member count).
OneMemberPerChannel ==
    \A c \in clusters :
        /\ \A a, b \in Members(cluster_messages, c.id) :
             a # b => MessageById(a).channel_id # MessageById(b).channel_id
        /\ ChannelCount(c.id) = Cardinality(Members(cluster_messages, c.id))

\* C2: after an ingest commits, the only member of the returned cluster from
\* the new message's channel is the new message, and no Message row was
\* deleted by it.
LatestOnlyPerChannel ==
    [][IngestCommitted =>
         /\ \A id \in Members(cluster_messages, result.clusterId)' :
              (MessageById(id)'.channel_id = MessageById(result.messageId)'.channel_id)
                => id = result'.messageId
         /\ messages \subseteq messages']_vars

\* C3: in every reachable state, also of interleaved ingest transactions, a
\* message is a member of at most one cluster.
AtMostOneCluster ==
    \A a, b \in cluster_messages : a.message_id = b.message_id => a = b

\* C3 witness: an ingest vector-matched an unclustered message and committed
\* a new cluster that holds exactly the two, while another transaction that
\* also found that message unclustered is about to insert its memberships.
PairedWithUnclustered ==
    /\ Ingested
    /\ result.similarity.stage = "vector"
    /\ Members(cluster_messages, result.clusterId)
         = {result.matchedMessageId, result.messageId}
    /\ result.matchedMessageId # result.messageId
    /\ \E s \in Sessions :
         /\ txns[s].pc = "assign"
         /\ txns[s].vm.id = result.matchedMessageId
         /\ txns[s].vm.cluster_id = Null
         /\ CosineGe(txns[s].vm.similarity, SIMILARITY_THRESHOLD)

\* C4: a paid ingest creates a new cluster and reports no match, and in
\* every state a cluster with a paid member has exactly that member.
PaidStandsAlone ==
    /\ (Ingested /\ MessageById(result.messageId).is_paid_dm) =>
         /\ result.matchedMessageId = Null
         /\ CreatedByLastCommit(result.clusterId)
    /\ \A cm \in cluster_messages :
         MessageById(cm.message_id).is_paid_dm
           => Members(cluster_messages, cm.cluster_id) = {cm.message_id}

\* C4 witness: a paid message sits in its cluster while a non-paid message
\* of the same creator with the same text arrived later and is clustered.
PaidNextToSameText ==
    \E p, q \in messages :
        /\ p.is_paid_dm /\ ~q.is_paid_dm
        /\ p.text = q.text /\ p.creator_id = q.creator_id
        /\ q.id > p.id
        /\ \E cm \in cluster_messages : cm.message_id = p.id
        /\ \E cm \in cluster_messages : cm.message_id = q.id

\* C5: when an ingest returns a matchedMessageId, the matched message and
\* the new message are both members of the returned cluster.
MatchedSharesCluster ==
    (Ingested /\ result.matchedMessageId # Null) =>
        {result.matchedMessageId, result.messageId}
            \subseteq Members(cluster_messages, result.clusterId)

\* C6: an ingest whose trimmed text is shorter than the minimum length or
\* matches a no-response pattern returns Skipped(no_response_needed),
\* changes no table and does not call the embedding provider.
NoResponseNeeded ==
    [t \in Texts |->
        \/ Len(Trim(t)) < MIN_RESPONSE_LENGTH
        \/ MatchesAckPattern(Trim(t))
        \/ MatchesEmojiPattern(Trim(t))]

NoResponseInputs == { i : i \in {j \in IngestInputs : NoResponseNeeded[j.text]} }

ActionedClusterGone ==
    [][/\ ActionCommitted => Absent(result.clusterId)'
       /\ AbsentForGood]_vars

\* C7 witness: an ingest committed after an action, and the actioned
\* cluster's id is absent.
IngestAfterAction ==
    /\ Ingested
    /\ response_templates # {}
    /\ \E id \in IdArgs : id < nextClusterId /\ Absent(id)

\* C8: action sets repliedAt on exactly the members whose channel is in
\* channelIds, removes every membership of the cluster and deletes no
\* Message row.
ActionMarksReplied ==
    [][ActionCommitted =>
         \A id \in {result'.clusterId} : \A responseText \in ResponseTexts :
           \A channelIds \in SUBSET Channels :
             actionCluster(id, responseText, channelIds) =>
                /\ MessageIds \subseteq MessageIds'
                /\ \A m \in Members(cluster_messages, id) :
                     /\ m \in MessageIds'
                     /\ (MessageById(m)'.replied_at # Null)
                          <=> (MessageById(m).channel_id \in channelIds)
                /\ Members(cluster_messages, id)' = {}]_vars

RemoveLastDeletesCluster ==
    [][/\ (RemoveCommitted
            /\ Members(cluster_messages, result'.clusterId) = {result'.messageId}) =>
              /\ result'.cluster = NoCluster
              /\ result'.clusterId \notin ClusterIds'
              /\ Absent(result.clusterId)'
       /\ AbsentForGood]_vars

\* C10 witness: a removal of a last member returned the
\* deleted signal; the removed message row is still stored and the cluster
\* is absent.
RemovedLastOnce ==
    /\ result.op = "remove" /\ result.outcome = "ok"
    /\ result.cluster = NoCluster
    /\ result.messageId \in MessageIds
    /\ Absent(result.clusterId)

\* C11: removeMember on a member of a cluster with other members removes
\* exactly that membership and bumps updatedAt; the cluster stays Open, its
\* other fields, every other cluster, every message row and every template
\* are unchanged, and the returned cluster shows the reduced membership.
RemoveKeepsOthers ==
    [][RemoveCommitted =>
         \A c \in IdArgs : \A mid \in IdArgs :
           (/\ c = result'.clusterId /\ mid = result'.messageId
            /\ Members(cluster_messages, c) # {mid}) =>
             LET removed == [cluster_id |-> c, message_id |-> mid]
             IN  /\ removed \in cluster_messages
                 /\ cluster_messages' = cluster_messages \ {removed}
                 /\ messages' = messages
                 /\ response_templates' = response_templates
                 /\ ClusterIds' = ClusterIds
                 /\ \A o \in clusters : o.id # c => o \in clusters'
                 /\ ClusterById(c)'.status = Open
                 /\ ClusterById(c)'.updated_at > ClusterById(c).updated_at
                 /\ ClusterById(c)' =
                      [ClusterById(c) EXCEPT !.updated_at = ClusterById(c)'.updated_at]
                 /\ result'.cluster.id = c
                 /\ result'.cluster.status = Open
                 /\ result'.cluster.updatedAt = ClusterById(c)'.updated_at
                 /\ result'.cluster.messages = Members(cluster_messages, c) \ {mid}
                 /\ result'.cluster.messages # {}]_vars

\* C11 witness: a removal returned the refreshed cluster, which still has a
\* member, and the removed message's row is stored outside every cluster.
RemovedOneOfTwo ==
    /\ result.op = "remove" /\ result.outcome = "ok"
    /\ result.cluster # NoCluster
    /\ result.cluster.messages # {}
    /\ result.messageId \in MessageIds
    /\ \A cm \in cluster_messages : cm.message_id # result.messageId

\* C12: there is at most one response template per (creatorId,
\* responseText, questionEmbedding); a committed action whose triple has no
\* template inserts one with usageCount 1, one whose triple has a template
\* adds 1 to its usageCount and inserts no row, and no other step writes
\* the templates (so usageCount counts the committed actions of the triple).
TemplatesOf(tpls, creatorId, responseText, embedding) ==
    { t \in tpls : /\ t.creator_id = creatorId
                   /\ t.response_text = responseText
                   /\ t.question_embedding = embedding }

OneTemplatePerTriple ==
    [][/\ \A a, b \in response_templates' :
            (/\ a.creator_id = b.creator_id
             /\ a.response_text = b.response_text
             /\ a.question_embedding = b.question_embedding) => a = b
       /\ ~ActionCommitted => response_templates' = response_templates
       /\ ActionCommitted =>
            \A id \in IdArgs : \A responseText \in ResponseTexts :
              (id = result'.clusterId /\ responseText = result'.cluster.responseText) =>
                \E first \in EarliestMembers(id) :
                  LET before == TemplatesOf(response_templates, ClusterById(id).creator_id,
                                            responseText, first.embedding)
                      after == TemplatesOf(response_templates', ClusterById(id).creator_id,
                                           responseText, first.embedding)
                  IN  /\ response_templates \ before = response_templates' \ after
                      /\ Cardinality(after) = 1
                      /\ IF before = {}
                         THEN \A t \in after : t.usage_count = 1
                         ELSE \A t \in after : \E o \in before :
                                /\ t.id = o.id
                                /\ t.usage_count = o.usage_count + 1]_vars

\* C12 witness: a template was used by two committed actions.
TemplateUsedTwice ==
    /\ result.op = "action" /\ result.outcome = "ok"
    /\ \E t \in response_templates : t.usage_count = 2

\* C13: action with an empty channelIds list fails with the validation
\* error, action on an id without cluster row fails with not-found, and
\* neither changes any table.
ActionRejects ==
    [][result'.op = "action" =>
         \A id \in IdArgs : \A responseText \in ResponseTexts :
           \A channelIds \in SUBSET Channels :
             ((channelIds = {} \/ id \notin ClusterIds)
                /\ actionCluster(id, responseText, channelIds)) =>
               /\ channelIds = {} =>
                    /\ result'.outcome = "error"
                    /\ result'.reason = "At least one channel must be selected"
                    /\ UNCHANGED db
               /\ (channelIds # {} /\ id \notin ClusterIds) =>
                    /\ result'.outcome = "error"
                    /\ result'.reason = "Cluster not found"
                    /\ UNCHANGED db]_vars

\* C13 witness: an action was rejected for its empty channel list while
\* clusters, memberships and a template are stored.
RejectedWithEmptyChannels ==
    /\ result.op = "action" /\ result.outcome = "error"
    /\ result.reason = "At least one channel must be selected"
    /\ clusters # {} /\ cluster_messages # {} /\ response_templates # {}

\* C14: an ingest that calls the embedding provider while the provider
\* fails reports the failure and leaves no message row, cluster or
\* membership behind.
AnswerableInputs == { i : i \in {j \in IngestInputs : ~NoResponseNeeded[j.text]} }

EmbedFailurePersistsNothing ==
    [][result'.op = "ingest" =>
         \A input \in AnswerableInputs :
           (ingestMessage(input, TRUE) /\ result'.embedCalled) =>
              /\ result'.outcome = "error"
              /\ result'.reason = "embedding"
              /\ messages' = messages
              /\ clusters' = clusters
              /\ cluster_messages' = cluster_messages
              /\ response_templates' = response_templates]_vars

\* C14 witness: an ingest failed on the embedding provider while the store
\* holds a clustered message.
EmbedFailedOnce ==
    /\ result.op = "ingest" /\ result.outcome = "error"
    /\ result.reason = "embedding"
    /\ cluster_messages # {}

\* C15: a call that reports an error has committed none of its writes: a
\* step that returns an error changes no table, and a removeMember whose
\* transaction has committed returns without error.
ErrorsCommitNothing ==
    [][/\ (result' # result /\ result'.outcome = "error") =>
            /\ messages' = messages
            /\ clusters' = clusters
            /\ cluster_messages' = cluster_messages
            /\ response_templates' = response_templates
       /\ \A s \in Sessions :
            (txns[s].op = "remove" /\ txns'[s].pc = "idle") =>
                result'.outcome = "ok"]_vars

\* C18: the cluster a detail read returns is one a single committed state
\* can show: its channel count is positive exactly if its member list is
\* not empty, and never exceeds the length of the list.
DetailFromOneState ==
    (result.op = "detail" /\ result.outcome = "ok") =>
        /\ (result.cluster.channelCount > 0) <=> (result.cluster.messages # {})
        /\ result.cluster.channelCount <= Cardinality(result.cluster.messages)

\* The cluster id was generated and committed, and its row has been deleted.
Deleted(id) ==
    /\ id < nextClusterId
    /\ id \notin ClusterIds
    /\ \A s \in Sessions : \A c \in txns[s].newClusters : c.id # id

\* C16: a deleted cluster id stays deleted: no later step makes its row or
\* a membership of it exist, no later ingest returns it, detail on it fails,
\* and action and removeMember on it fail and write nothing.
DeletionTerminal ==
    [][\A id \in IdArgs : Deleted(id) =>
         /\ Deleted(id)'
         /\ Members(cluster_messages', id) = {}
         /\ \A s \in Sessions : \A cm \in txns'[s].newMemberships :
               cm.cluster_id # id
         /\ (result'.op = "ingest" /\ result'.outcome = "ok") =>
               result'.clusterId # id
         /\ getCluster(id)' = NoCluster
         /\ result'.op = "action" =>
               \A responseText \in ResponseTexts : \A channelIds \in SUBSET Channels :
                  actionCluster(id, responseText, channelIds) =>
                     result'.outcome = "error" /\ db' = db
         /\ result'.op = "remove" =>
               \A messageId \in IdArgs :
                  removeClusterMessage(id, messageId) =>
                     result'.outcome = "error" /\ db' = db]_vars

\* C16 witness: an ingest that had matched a member of a cluster deleted in
\* the meantime failed on the foreign key, and an ingest committed after a
\* deletion.
StaleIngestRejected ==
    /\ result.op = "ingest" /\ result.outcome = "error"
    /\ result.reason = "foreign_key_violation"
    /\ \E id \in IdArgs : Deleted(id)

\* Committed messages with the input's text and creator, non-paid,
\* unreplied, each with its cluster (Null if it has none).
SameTextRows(input) ==
    { j \in MessageClusterJoin(messages, cluster_messages, clusters) :
        /\ j.m.text = input.text
        /\ j.m.creator_id = input.creatorId
        /\ j.m.is_paid_dm = FALSE
        /\ j.m.replied_at = Null }

\* C17: an ingest of a non-paid text during whose transaction nothing else
\* committed (it ran after the earlier ingest of the same text for the same
\* creator) ends in the cluster of that earlier message; run concurrently,
\* the two can end in two clusters (the witness).
SerialIngestsShareCluster ==
    [][\A s \in Sessions :
         (txns[s].pc = "commit" /\ txns'[s].pc = "idle"
            /\ txns[s].createdAt = now) =>
           \A input \in txns[s].input :
             LET same == SameTextRows(input) IN
             (same # {} /\ \A j \in same : j.cluster_id # Null) =>
                \E j \in same :
                   /\ result'.op = "ingest" /\ result'.outcome = "ok"
                   /\ result'.matchedMessageId = j.m.id
                   /\ result'.clusterId = j.cluster_id
                   /\ {j.m.id, result'.messageId}
                        \subseteq Members(cluster_messages', j.cluster_id)]_vars

\* C17 witness: two concurrent ingests of one text for one creator have
\* both committed, neither matched, and the two messages, the only ones
\* stored, are in two different clusters.
SameTextTwoClusters ==
    /\ Ingested
    /\ result.matchedMessageId = Null
    /\ Cardinality(messages) = 2
    /\ Cardinality(clusters) = 2
    /\ \A m \in messages :
          /\ m.text = TextPrice /\ m.creator_id = "creatorA"
          /\ m.is_paid_dm = FALSE /\ m.replied_at = Null
          /\ m.created_at = FirstNow
    /\ \A c \in clusters : Cardinality(Members(cluster_messages, c.id)) = 1

\* C19: no two stored messages have the same externalMessageId.
ExternalMessageIdUnique ==
    \A a, b \in messages :
        a.external_message_id = b.external_message_id => a.id = b.id

\* C20: a committed ingest that returns no matchedMessageId returns a
\* cluster this call created, open and of the input's creator, whose only
\* member is the new message; every other cluster, membership and message
\* is as before.
UnmatchedIngestCreatesCluster ==
    [][(IngestCommitted /\ result'.matchedMessageId = Null) =>
         \A c \in IdArgs : \A mid \in IdArgs :
           (c = result'.clusterId /\ mid = result'.messageId) =>
              /\ c \notin ClusterIds
              /\ mid \notin MessageIds
              /\ clusters \subseteq clusters'
              /\ \A n \in clusters' \ clusters :
                    /\ n.id = c /\ n.status = Open
                    /\ \E m \in messages' : m.id = mid /\ m.creator_id = n.creator_id
              /\ c \in {n.id : n \in clusters'}
              /\ cluster_messages' =
                    cluster_messages \cup {[cluster_id |-> c, message_id |-> mid]}
              /\ Members(cluster_messages', c) = {mid}
              /\ messages \subseteq messages'
              /\ Cardinality(messages' \ messages) = 1
              /\ response_templates' = response_templates]_vars

\* C20 witness: an ingest matched nothing and got a cluster of its own
\* while another cluster with a member existed.
UnmatchedNextToCluster ==
    /\ Ingested
    /\ result.matchedMessageId = Null
    /\ Members(cluster_messages, result.clusterId) = {result.messageId}
    /\ \E c \in clusters :
          c.id # result.clusterId /\ Members(cluster_messages, c.id) # {}

\* The input fields the candidate queries read, taken from the stored row.
InputOf(m) ==
    [text |-> m.text, creatorId |-> m.creator_id, isPaidDm |-> m.is_paid_dm]

\* C21: a committed non-paid ingest whose best lexical candidates are all
\* members of a cluster returns one of them as matchedMessageId with its
\* cluster as clusterId and its trigram similarity, above 0.85, and the new
\* message is a member of that cluster; whenever the returned match is a
\* best lexical candidate in a cluster, that cluster is the one returned.
LexicalMatchJoins ==
    [][IngestCommitted =>
         \A m \in messages' \ messages :
           (~m.is_paid_dm /\ TrigramMatch(InputOf(m)) # {}) =>
             LET best == TrigramMatch(InputOf(m)) IN
             /\ (\A tm \in best : tm.cluster_id # Null) =>
                  \E tm \in best :
                    /\ result'.matchedMessageId = tm.id
                    /\ result'.clusterId = tm.cluster_id
                    /\ result'.similarity =
                         [stage |-> "trigram", num |-> tm.trgm_similarity.num,
                          den |-> tm.trgm_similarity.den]
                    /\ FracGt(tm.trgm_similarity, TRIGRAM_THRESHOLD)
                    /\ ClusterById(tm.cluster_id).status = Open
                    /\ [cluster_id |-> tm.cluster_id, message_id |-> m.id]
                         \in cluster_messages'
                    /\ clusters' = clusters
             /\ \A tm \in best :
                  (tm.cluster_id # Null /\ result'.matchedMessageId = tm.id) =>
                     /\ result'.clusterId = tm.cluster_id
                     /\ [cluster_id |-> tm.cluster_id, message_id |-> m.id]
                          \in cluster_messages']_vars

\* C21 witness: the same text from a second channel joined the cluster of
\* the first by its trigram similarity.
JoinedByTrigram ==
    /\ Ingested
    /\ result.similarity.stage = "trigram"
    /\ result.matchedMessageId # Null
    /\ {result.matchedMessageId, result.messageId}
         \subseteq Members(cluster_messages, result.clusterId)
    /\ MessageById(result.matchedMessageId).channel_id
         # MessageById(result.messageId).channel_id
    /\ MessageById(result.matchedMessageId).text
         = MessageById(result.messageId).text

\* The lexical row is in a cluster that has a member other than the row's
\* message with an embedding.
OtherEmbeddedMember(tm) ==
    /\ tm.id # Null
    /\ tm.cluster_id # Null
    /\ \E cm \in cluster_messages :
         /\ cm.cluster_id = tm.cluster_id
         /\ cm.message_id # tm.id
         /\ MessageById(cm.message_id).embedding # NullVec

\* C22: a non-skipped ingest does not call the embedding provider exactly
\* when its lexical match is in a cluster with another embedded member:
\* then it commits, also with the provider down, and stores the message
\* without an embedding; in every other case it calls the provider, stores
\* the embedding, and fails when the provider is down.
EmbeddingSkippedOnlyWithEmbeddedPeer ==
    [][result'.op = "ingest" =>
         \A input \in AnswerableInputs : \A embedFails \in BOOLEAN :
           ingestMessage(input, embedFails) =>
             LET best == TrigramChoices(input) IN
             /\ (\A tm \in best : OtherEmbeddedMember(tm)) =>
                  /\ result'.outcome = "ok"
                  /\ ~result'.embedCalled
                  /\ \A m \in messages' \ messages : m.embedding = NullVec
             /\ (\A tm \in best : ~OtherEmbeddedMember(tm)) =>
                  /\ result'.embedCalled
                  /\ embedFails =>
                       result'.outcome = "error" /\ result'.reason = "embedding"
                  /\ \A m \in messages' \ messages : m.embedding # NullVec
             /\ ~result'.embedCalled =>
                  /\ \E tm \in best : OtherEmbeddedMember(tm)
                  /\ result'.outcome = "ok"]_vars

\* C22 witness: an ingest committed without calling the provider, and the
\* stored message has no embedding.
StoredWithoutEmbedding ==
    /\ Ingested
    /\ ~result.embedCalled
    /\ MessageById(result.messageId).embedding = NullVec
    /\ result.matchedMessageId # Null

\* C23: action on an existing cluster with a non-empty channelIds list
\* commits and deletes the cluster, whatever the embeddings of its members.
ActionAlwaysCommits ==
    [][result'.op = "action" =>
         \A id \in IdArgs : \A responseText \in ResponseTexts :
           \A channelIds \in SUBSET Channels :
             (id \in ClusterIds /\ channelIds # {}
                /\ actionCluster(id, responseText, channelIds)) =>
               /\ result'.outcome = "ok"
               /\ \A c \in clusters' : c.id # id]_vars

\* C24: in every state every cluster row has status Open, and the list
\* with the Actioned filter is empty for every creator.
OnlyOpenClusters ==
    /\ \A c \in clusters : c.status = Open
    /\ \A creatorId \in Creators : \A minChannelCount \in MinChannelCounts :
         listClusters(creatorId, Actioned, minChannelCount) = {}

\* C24 witness: an action has committed and another cluster is still
\* stored, listed as Open.
ActionedNextToOpen ==
    /\ result.op = "action" /\ result.outcome = "ok"
    /\ \E c \in clusters :
         mapClusterRow(c) \in listClusters(c.creator_id, Open, Null)

\* C25: under sequential execution every cluster row has at least one
\* membership, and every membership is of an existing cluster.
NoEmptyCluster ==
    /\ \A c \in clusters : Members(cluster_messages, c.id) # {}
    /\ \A cm \in cluster_messages : cm.cluster_id \in ClusterIds

\* C25 witness: the last member of a cluster was removed, or a cluster was
\* actioned, while another cluster with members is stored.
EmptiedNextToCluster ==
    /\ result.op \in {"remove", "action"}
    /\ result.outcome = "ok"
    /\ result.clusterId # Null
    /\ result.clusterId \notin ClusterIds
    /\ clusters # {}

\* C26: once no removeMember transaction is open, no cluster is left with
\* zero members: concurrent removals of the last two members delete the
\* cluster.
NoEmptyClusterAfterRemovals ==
    (\A s \in Sessions : txns[s].pc \notin {"check", "write"}) =>
        \A c \in clusters : Members(cluster_messages, c.id) # {}

\* C27: a second action on a cluster id takes no effect: when the call that
\* returned last is a successful action on a cluster id, an action
\* transaction on that id fails and records no template usage.
ActionTakesEffectOnce ==
    [][\A s \in Sessions :
         (/\ txns[s].op = "action"
          /\ txns[s].pc \in {"template", "delete"}
          /\ txns'[s].pc = "idle"
          /\ result.op = "action" /\ result.outcome = "ok"
          /\ result.clusterId = txns[s].clusterId) =>
            /\ result'.outcome = "error"
            /\ response_templates' = response_templates]_vars

\* C28: an action that commits on an existing cluster while every triple
\* has at most one template leaves exactly one template for its triple:
\* concurrent actions on different clusters share the template.
SharedTemplateStaysOne ==
    [][\A s \in Sessions :
         (/\ txns[s].op = "action"
          /\ txns[s].pc = "delete"
          /\ txns'[s].pc = "idle"
          /\ txns[s].clusterId \in ClusterIds
          /\ \A a, b \in response_templates :
               (/\ a.creator_id = b.creator_id
                /\ a.response_text = b.response_text
                /\ a.question_embedding = b.question_embedding) => a.id = b.id) =>
            Cardinality(TemplatesOf(response_templates', txns[s].creator_id,
                                    txns[s].responseText, txns[s].embedding)) = 1]_vars

\* Every member of a cluster has the cluster's creator.
MembersOfOwnCreator ==
    \A cm \in cluster_messages :
        /\ cm.cluster_id \in ClusterIds
        /\ cm.message_id \in MessageIds
        /\ MessageById(cm.message_id).creator_id = ClusterById(cm.cluster_id).creator_id

\* C29: every member of a cluster has the cluster's creator, and a
\* committed ingest for a creator returns a matched message and a cluster of
\* that creator and leaves the clusters, memberships and messages of every
\* other creator as they were.
CreatorIsolation ==
    [][/\ MembersOfOwnCreator'
       /\ IngestCommitted =>
            \A m \in messages' \ messages :
              /\ m.id = result'.messageId
              /\ \A c \in clusters' :
                   c.id = result'.clusterId => c.creator_id = m.creator_id
              /\ \A q \in messages :
                   q.id = result'.matchedMessageId => q.creator_id = m.creator_id
              /\ result'.matchedMessageId # Null =>
                   result'.matchedMessageId \in MessageIds
              /\ {c \in clusters' : c.creator_id # m.creator_id}
                   = {c \in clusters : c.creator_id # m.creator_id}
              /\ \A cm \in (cluster_messages' \ cluster_messages)
                             \cup (cluster_messages \ cluster_messages') :
                   \E c \in clusters' :
                      c.id = cm.cluster_id /\ c.creator_id = m.creator_id
              /\ {q \in messages' : q.creator_id # m.creator_id}
                   = {q \in messages : q.creator_id # m.creator_id}]_vars

\* C29 witness: two creators have stored the same text, each message in a
\* cluster of its own creator, and the later ingest matched nothing.
SameTextTwoCreators ==
    /\ Ingested
    /\ result.matchedMessageId = Null
    /\ \E a, b \in messages :
         /\ a.creator_id # b.creator_id
         /\ a.text = b.text
         /\ ~a.is_paid_dm /\ ~b.is_paid_dm
         /\ a.replied_at = Null /\ b.replied_at = Null
         /\ \E ca, cb \in clusters :
              /\ ca.id # cb.id
              /\ a.id \in Members(cluster_messages, ca.id)
              /\ b.id \in Members(cluster_messages, cb.id)

CandidatesBefore(creatorId) ==
    { j \in MessageClusterJoin(messages, cluster_messages, clusters) :
        IsCandidate(j, creatorId) }

\* The candidates a stored message m scores above the lexical threshold with.
LexicalAbove(m) ==
    { j \in CandidatesBefore(m.creator_id) :
        LET s == TrgmSimilarity(j.m.text, m.text)
        IN  s.num * TRIGRAM_THRESHOLD.den > TRIGRAM_THRESHOLD.num * s.den }

\* The candidates a stored message m reaches the vector threshold with.
VectorAtLeast(m) ==
    { j \in CandidatesBefore(m.creator_id) :
        /\ j.m.embedding # NullVec
        /\ m.embedding # NullVec
        /\ LET dot == Dot(j.m.embedding, m.embedding)
               nn == Dot(j.m.embedding, j.m.embedding) * Dot(m.embedding, m.embedding)
           IN  /\ dot >= 0
               /\ dot * dot * SIMILARITY_THRESHOLD.den * SIMILARITY_THRESHOLD.den
                    >= SIMILARITY_THRESHOLD.num * SIMILARITY_THRESHOLD.num * nn }

\* C31: a committed ingest reports a lexical match only with a score strictly
\* above the lexical threshold (none when no candidate scores above it, a
\* score equal to 0.85 included), and a vector match only with a cosine at
\* least the vector threshold, which a cosine equal to the threshold is; a
\* vector match is reported only for a non-paid message with an embedding
\* when the lexical stage can have yielded no cluster (no candidate is above
\* the lexical threshold, or one of the best of them is in no cluster), and
\* with no candidate above the lexical threshold a candidate at or above the
\* vector threshold is matched.
ThresholdsAsStated ==
    [][IngestCommitted =>
        \A m \in messages' \ messages :
            LET lexical == IF m.is_paid_dm THEN {} ELSE LexicalAbove(m)
                sim == result'.similarity
            IN  /\ sim.stage = "trigram" =>
                     /\ sim.num * TRIGRAM_THRESHOLD.den > TRIGRAM_THRESHOLD.num * sim.den
                     /\ lexical # {}
                /\ sim.stage = "vector" =>
                     /\ sim.num >= 0
                     /\ sim.num * sim.num * SIMILARITY_THRESHOLD.den * SIMILARITY_THRESHOLD.den
                          >= SIMILARITY_THRESHOLD.num * SIMILARITY_THRESHOLD.num * sim.den
                     /\ ~m.is_paid_dm
                     /\ m.embedding # NullVec
                     /\ \/ lexical = {}
                        \/ \E j \in lexical :
                             /\ j.cluster_id = Null
                             /\ \A k \in lexical :
                                  LET sj == TrgmSimilarity(j.m.text, m.text)
                                      sk == TrgmSimilarity(k.m.text, m.text)
                                  IN  sj.num * sk.den >= sk.num * sj.den
                /\ (lexical = {} /\ ~m.is_paid_dm /\ VectorAtLeast(m) # {}) =>
                     /\ sim.stage = "vector"
                     /\ result'.matchedMessageId \in {j.m.id : j \in VectorAtLeast(m)}
                /\ (lexical = {} /\ VectorAtLeast(m) = {}) =>
                     result'.matchedMessageId = Null]_vars

\* A message whose lexical score with the only other message is exactly the
\* lexical threshold and whose cosine with it is exactly the vector threshold
\* was matched to it by the vector stage.
MatchedAtBothThresholds ==
    /\ Ingested
    /\ result.similarity.stage = "vector"
    /\ result.similarity.num * result.similarity.num
         * SIMILARITY_THRESHOLD.den * SIMILARITY_THRESHOLD.den
         = SIMILARITY_THRESHOLD.num * SIMILARITY_THRESHOLD.num * result.similarity.den
    /\ \E m \in messages : \E q \in messages :
         /\ m.id = result.messageId
         /\ q.id = result.matchedMessageId
         /\ LET s == TrgmSimilarity(q.text, m.text)
            IN  s.num * TRIGRAM_THRESHOLD.den = TRIGRAM_THRESHOLD.num * s.den


\* ---------------------------------------------------------------------- C32
\* The templates of a creator whose similarity to an embedding is above 0.8,
\* each with that similarity as the cosine dot / sqrt(nn).
Suggestable(embedding, creatorId) ==
    { r \in { [id |-> t.id, text |-> t.response_text,
               dot |-> Dot(t.question_embedding, embedding),
               nn |-> Dot(t.question_embedding, t.question_embedding)
                        * Dot(embedding, embedding),
               usageCount |-> t.usage_count, lastUsedAt |-> t.last_used_at]
             : t \in { u \in response_templates : u.creator_id = creatorId } } :
        r.dot > 0 /\ r.dot * r.dot * 100 > 64 * r.nn }

\* Template t ranks above template u, both similar to the embedding: by
\* similarity, then usageCount, then lastUsedAt.
RanksAbove(t, u) ==
    \/ t.dot * t.dot * u.nn > u.dot * u.dot * t.nn
    \/ /\ t.dot * t.dot * u.nn = u.dot * u.dot * t.nn
       /\ \/ t.usageCount > u.usageCount
          \/ /\ t.usageCount = u.usageCount
             /\ t.lastUsedAt > u.lastUsedAt

\* The members of a cluster with the least created_at.
EarliestOf(clusterId) ==
    LET members == { m \in messages :
                       \E cm \in cluster_messages :
                           cm.cluster_id = clusterId /\ cm.message_id = m.id }
    IN  { m \in members : \A q \in members : m.created_at <= q.created_at }

\* The array s lists the texts of the best-ranked templates of creatorId
\* above 0.8 for the embedding, at most 3, best first: its i-th entry is
\* the text of a template that fewer than i of them rank above and that
\* ranks above at most as many as come after position i.
BestSuggestions(s, embedding, creatorId) ==
    LET good == Suggestable(embedding, creatorId)
        above(t) == Cardinality({u \in good : RanksAbove(u, t)})
        below(t) == Cardinality({u \in good : RanksAbove(t, u)})
    IN  /\ Len(s) = IF Cardinality(good) < 3 THEN Cardinality(good) ELSE 3
        /\ \A i \in 1..Len(s) :
             \E t \in good :
                 /\ s[i].text = t.text
                 /\ above(t) < i
                 /\ below(t) <= Cardinality(good) - i

\* C32: whatever cluster (one that exists or the next one, which does not)
\* and creator suggest is asked about, the array it returns has at most 3 entries and lists, best first, the best-ranked
\* templates of that creator whose similarity to the embedding of an earliest
\* member of the cluster is strictly above 0.8 (ranked by similarity, then
\* usageCount, then lastUsedAt, all descending); it is empty when the cluster
\* has no members or that earliest member has no embedding.
SuggestAsStated ==
    \A c \in ClusterIds \cup {nextClusterId} : \A cr \in Creators :
        \A s \in getSuggestedResponses(c, cr) :
            /\ Len(s) <= 3
            /\ IF EarliestOf(c) = {} THEN s = <<>>
               ELSE \E first \in EarliestOf(c) :
                      IF first.embedding = NullVec THEN s = <<>>
                      ELSE BestSuggestions(s, first.embedding, cr)

\* A cluster for whose earliest member four templates of a creator are above
\* 0.8, not all equally similar: three of them are suggested.
ThreeOfFourSuggested ==
    \E c \in ClusterIds : \E cr \in Creators : \E first \in EarliestOf(c) :
        /\ first.embedding # NullVec
        /\ Cardinality(Suggestable(first.embedding, cr)) = 4
        /\ \E s \in getSuggestedResponses(c, cr) :
             Len(s) = 3 /\ s[1].similarity # s[3].similarity


\* A cluster of a creator who has templates whose earliest member has no
\* embedding.
EarliestWithoutEmbedding ==
    \E c \in clusters : \E first \in EarliestOf(c.id) :
        /\ first.embedding = NullVec
        /\ \E t \in response_templates : t.creator_id = c.creator_id


\* ---------------------------------------------------------------------- C33
\* The templates of the creator of template t that rank above it for its
\* own question embedding.
OutrankingOwnQuestion(t) ==
    LET good == Suggestable(t.question_embedding, t.creator_id)
    IN  { u \in good :
            \E me \in good : me.id = t.id /\ RanksAbove(u, me) }

\* C33: a committed action with reply r leaves a template of the cluster's
\* creator holding r and the embedding of the cluster's earliest member; no
\* step takes a template's creator, text and embedding away; and in every
\* state, for every template and every cluster of its creator whose earliest
\* member has the template's embedding, suggest returns a non-empty list that
\* contains the template's text with similarity above 0.8 whenever fewer than
\* 3 other templates of that creator rank above it.
SuggestRecallsReply ==
    /\ [][ActionCommitted =>
            \A c \in clusters : c.id = result'.clusterId =>
                \E first \in EarliestOf(c.id) : \E t \in response_templates' :
                    /\ t.creator_id = c.creator_id
                    /\ t.response_text = result'.cluster.responseText
                    /\ t.question_embedding = first.embedding]_vars
    /\ [][\A t \in response_templates : \E u \in response_templates' :
            /\ u.creator_id = t.creator_id
            /\ u.response_text = t.response_text
            /\ u.question_embedding = t.question_embedding]_vars
    /\ [](\A t \in response_templates : \A c \in clusters :
            (/\ c.creator_id = t.creator_id
             /\ EarliestOf(c.id) # {}
             /\ \A first \in EarliestOf(c.id) :
                  first.embedding = t.question_embedding
             /\ Cardinality(OutrankingOwnQuestion(t)) < 3)
            => \A s \in getSuggestedResponses(c.id, t.creator_id) :
                 /\ s # <<>>
                 /\ \E i \in 1..Len(s) :
                      s[i].text = t.response_text /\ s[i].similarity > 800)

\* After a committed action, a later cluster of the same creator has an
\* earliest member with the embedding of a template that another template
\* ranks above: the template's text is suggested, not in the first place.
ReplySuggestedSecond ==
    \E t \in response_templates : \E c \in clusters :
        /\ c.creator_id = t.creator_id
        /\ EarliestOf(c.id) # {}
        /\ \A first \in EarliestOf(c.id) : first.embedding = t.question_embedding
        /\ Cardinality(OutrankingOwnQuestion(t)) = 1
        /\ \E s \in getSuggestedResponses(c.id, t.creator_id) :
             /\ Len(s) >= 2
             /\ s[1].text # t.response_text
             /\ s[2].text = t.response_text
             /\ s[2].similarity > 800


\* ---------------------------------------------------------------------- C34
\* The sum of usage_count over the templates tpls.
RECURSIVE UsageSum(_)
UsageSum(tpls) ==
    IF tpls = {} THEN 0
    ELSE LET t == CHOOSE x \in tpls : TRUE
         IN  t.usage_count + UsageSum(tpls \ {t})

\* The sum of usageCount over a creator's templates.
UsageOf(tpls, creatorId) == UsageSum({t \in tpls : t.creator_id = creatorId})

\* C34: there is no template at the start; a committed action adds exactly 1
\* to the usageCount sum of the templates of the creator of the cluster it
\* acts on and leaves the sum of every other creator as it is; every other
\* step (ingest, removeMember, a failed action) leaves the set of templates
\* and every usageCount unchanged.  Hence in every reachable state the sum of
\* usageCount over a creator's templates is the number of committed actions
\* on that creator's clusters.
TemplatesCountActions ==
    /\ response_templates = {}
    /\ [][IF ActionCommitted
          THEN \A c \in clusters : c.id = result'.clusterId =>
                 \A cr \in Creators :
                     UsageOf(response_templates', cr) =
                         UsageOf(response_templates, cr)
                           + (IF cr = c.creator_id THEN 1 ELSE 0)
          ELSE response_templates' = response_templates]_vars

\* Two actions have committed on clusters of one creator and none on a
\* cluster of the other.
TwoActionsCounted ==
    /\ UsageOf(response_templates, "creatorA") = 2
    /\ UsageOf(response_templates, "creatorB") = 0
    /\ result.op = "action" /\ result.outcome = "ok"


\* ---------------------------------------------------------------------- C35
\* The number of distinct channels among the members of a cluster.
DistinctChannels(clusterId) ==
    Cardinality({ m.channel_id : m \in { x \in messages :
                    \E cm \in cluster_messages :
                        cm.cluster_id = clusterId /\ cm.message_id = x.id } })

\* The clusters list(creatorId, status, minChannelCount) is to return.
Listed(creatorId, status, minChannelCount) ==
    { c \in clusters :
        /\ c.creator_id = creatorId
        /\ status # NullStatus => c.status = status
        /\ (minChannelCount # Null /\ minChannelCount > 0) =>
             DistinctChannels(c.id) >= minChannelCount }

RemoveOfNonMemberChangesNothing ==
    [][\A clusterId \in IdArgs : \A messageId \in IdArgs :
        (/\ [cluster_id |-> clusterId, message_id |-> messageId]
               \notin cluster_messages
         /\ removeClusterMessage(clusterId, messageId))
        => /\ result'.op = "remove"
           /\ result'.outcome = "error"
           /\ messages' = messages
           /\ cluster_messages' = cluster_messages
           /\ clusters' = clusters
           /\ response_templates' = response_templates]_vars

\* A removal has failed while two clusters have one member each: every
\* message is a member of a cluster, so the call named no cluster, no
\* message, or a message of the other cluster; both memberships are there.
RemoveFailedBesideTwoClusters ==
    /\ result.op = "remove" /\ result.outcome = "error"
    /\ Cardinality(clusters) = 2
    /\ Cardinality(messages) = 2
    /\ \A c \in clusters : Cardinality(Members(cluster_messages, c.id)) = 1

====
